---- MODULE Spec2Model ----
EXTENDS Integers, Sequences, FiniteSets, TLC

(***************************************************************************)
(* Model of the RTSP control loop (program.run / program.close), of the    *)
(* static sources (rtmpSource.run, udpSource.run), of the recorder         *)
(* (record.Agent), of the external commands and of the metrics server.     *)
(*                                                                         *)
(* The specifications of the module:                                       *)
(*   Spec       - the control loop of the program, its clients and paths   *)
(*   LiveSpec   - Spec with the fairness the shutdown relies on            *)
(*   FrameSpec  - the control loop with the forwarded frames numbered      *)
(*   SourceSpec - one static source worker (RTMP or UDP) and its parent    *)
(*   AgentSpec  - one recorder agent, its writer and its caller            *)
(*   CmdSpec    - one external command, its run loop and Close             *)
(*   CmdLiveSpec - CmdSpec with the fairness of the run goroutine          *)
(*   MetricsSpec - the metrics server, the setters and its requests        *)
(*   LibSpec    - one call of a function that keeps no state               *)
(*   BufSpec    - one unit buffer with its writer and one reader cursor    *)
(***************************************************************************)

\* ------------------------------------------------------------------ bounds

\* number of client connections that can exist at the same time
NumClients == 2
\* largest number of media descriptions in a session description
MaxMedias == 1
\* largest number of units one run of a static source writes
MaxUnits == 2
\* largest number of runs of a static source started by its supervisor
MaxRuns == 2
\* largest number of frames the publishers of a run send
MaxFrames == 2
\* executions of the command of one externalcmd.Cmd
MaxExecs == 3
\* largest number of tokens of a credential value
MaxCredLen == 3
\* largest number of formats of a stream handed to mpegts.FromStream
MaxFormats == 3
\* largest number of units pushed into a Buffer
MaxPushes == 10
\* largest number of bytes of an image after its start-of-image marker
MaxBodyLen == 5
\* largest number of requests the metrics server receives
MaxRequests == 2

\* ------------------------------------------------------------- the program

VARIABLES
    conf,             \* program.conf.Paths: path name -> confPath
    paths,            \* program.paths: path name -> path
    clients,          \* program.clients and the fields of each client
    udpClientsByAddr, \* program.udpClientsByAddr: <<ip, port>> -> udpClient
    publisherCount,   \* program.publisherCount
    readerCount,      \* program.readerCount
    terminate,        \* program.terminate is closed
    chansClosed,      \* how many of the request channels run() has closed
    done,             \* program.done is closed
    serversClosed,    \* serverRtsp / serverRtcp / serverRtp are closed
    runPc,            \* position of program.run
    closePc,          \* position of program.close
    drain,            \* position of the goroutine started at line 322
    fwd,              \* position of forwardFrame: the frame and the clients still to serve
    last              \* the event handled by the last step and its answer

VARIABLES
    srcKind,          \* "rtmp" or "udp"
    srcTracks,        \* tracks found by ReadTracks / mpegts.NewReader
    readerPc,         \* position of the reader goroutine
    outerPc,          \* position of run()
    ctxDone,          \* ctx.Done() is closed
    connClosed,       \* nconn.Close() / pc.Close() has been called
    events,           \* calls made to the parent and the stream in this run
    readerRes,        \* what the reader goroutine returned
    runResult,        \* what run() returned
    runs              \* runs started so far

VARIABLES
    cmd,              \* an externalcmd.Cmd: its fields, the position of run and of Close
    lib,              \* one call of a library function: its arguments and its result
    buf,              \* a Buffer of media units, its writer sequence and one reader cursor
    metrics           \* the metrics server: its components, a setter and a request

VARIABLES
    produced,         \* frames the control loop has received from publishers so far
    got               \* per client: the number of the last frame handed to it

VARIABLES
    recFormat,        \* the format of the stream: its kind and the parameters signalled
    recCodec,         \* the codec parameters of the track (fmp4 codec struct)
    recSegment,       \* Agent.currentSegment: "nil", "created" (f = nil), "written", "closed"
    recStarted,       \* firstReceived / dtsExtractor != nil
    recLastPTS,       \* lastPTS of the MPEG-4 Video and MPEG-1 Video callbacks
    recWriter,        \* the asyncwriter: "running", "failed" (Error() is ready), "stopped"
    recPc,            \* position of Agent.run
    recCtxDone,       \* Agent.ctx is cancelled
    recClosePc,       \* position of Agent.Close
    recLog,           \* calls made by Agent.run, in order
    recLast           \* the unit handled by the last step and what became of it

progVars == <<conf, paths, clients, udpClientsByAddr, publisherCount, readerCount,
              terminate, chansClosed, done, serversClosed, runPc, closePc, drain, fwd,
              last>>
srcVars == <<srcKind, srcTracks, readerPc, outerPc, ctxDone, connClosed, events,
             readerRes, runResult, runs>>
seqVars == <<produced, got>>
recVars == <<recFormat, recCodec, recSegment, recStarted, recLastPTS, recWriter, recPc,
             recCtxDone, recClosePc, recLog, recLast>>
auxVars == <<cmd, lib, buf, metrics>>
restVars == <<srcVars, recVars, seqVars, auxVars>>
vars == <<progVars, srcVars, recVars, seqVars, auxVars>>

Clients == 1..NumClients
PathNames == {"cam", "live"}
NoPath == "-"
NoPublisher == 0
SourcePublisher == -1
NoConf == [source |-> "-", overridePublisher |-> FALSE]

\* the configurations the program is started with
ConfRecord == [source |-> "record", overridePublisher |-> FALSE]
ConfOverride == [source |-> "record", overridePublisher |-> TRUE]
ConfSource == [source |-> "rtsp://upstream", overridePublisher |-> FALSE]
Confs == { [live |-> ConfOverride, all |-> ConfRecord],
           [cam |-> ConfSource],
           [cam |-> ConfSource, live |-> ConfSource] }

\* the request channels, in the order in which run() closes them
Chans == <<"metricsGather", "clientNew", "clientClose", "clientDescribe",
           "clientAnnounce", "clientSetupPlay", "clientPlay", "clientRecord",
           "clientFrameUdp", "clientFrameTcp", "sourceReady", "sourceNotReady",
           "sourceFrame">>
ChanIndex(ch) == CHOOSE i \in 1..Len(Chans) : Chans[i] = ch
ChanClosed(ch) == ChanIndex(ch) <= chansClosed

\* what a step did: the event it handled and the answer it gave
Event(kind, client, path, track, res, phase) ==
    [kind |-> kind, client |-> client, path |-> path, track |-> track,
     res |-> res, phase |-> phase]
Internal(kind) == Event(kind, 0, NoPath, -1, "none", "run")

\* forwardFrame is not running
NoForward == [cur |-> 0, rest |-> {}, path |-> NoPath, track |-> -1]

\* ------------------------------------------------------------ clients, paths

NoClient == [state |-> "none", path |-> NoPath, streamTracks |-> {}, streamProtocol |-> "-"]
newClient == [state |-> "initial", path |-> NoPath, streamTracks |-> {}, streamProtocol |-> "-"]

\* the keys of program.clients
Registered == {c \in Clients : clients[c].state \notin {"none", "closing"}}

\* lines 404-414 (faulty variant first: the catch-all entry is not consulted)
findConfForPathNameExactOnly(name) ==
    IF name \in DOMAIN conf THEN conf[name] ELSE NoConf
findConfForPathName(name) ==
    IF name \in DOMAIN conf THEN conf[name]
    ELSE IF "all" \in DOMAIN conf THEN conf["all"]
    ELSE NoConf

\* lines 123-128: the paths newProgram creates
\* (faulty variant first: the catch-all entry is not skipped)
ConfiguredPathsWithAll == DOMAIN conf
ConfiguredPaths == DOMAIN conf \ {"all"}

\* a session sends a describe or announce request to the control loop only
\* for a path name some configuration matches
ConfMatches(name) == findConfForPathName(name) # NoConf

newPath(confp, permanent) ==
    [confp |-> confp, permanent |-> permanent,
     publisher |-> IF confp.source \in {"record", "-"} THEN NoPublisher ELSE SourcePublisher,
     publisherReady |-> FALSE, publisherSdp |-> 0, inited |-> FALSE, closed |-> FALSE]

\* p.paths after "create path if not exist"
WithPath(name) ==
    IF name \in DOMAIN paths THEN paths
    ELSE [n \in DOMAIN paths \cup {name} |->
            IF n = name THEN newPath(findConfForPathName(name), FALSE) ELSE paths[n]]

\* line 231: the path exists and somebody is publishing on it
\* faulty variants: the check is skipped, or only looks for a static source
HasPublisherNever(name) == FALSE
HasPublisherSourceOnly(name) == name \in DOMAIN paths /\ paths[name].publisher = SourcePublisher
HasPublisher(name) == name \in DOMAIN paths /\ paths[name].publisher # NoPublisher

\* lines 246-255: the answer to a setup-play request
\* (faulty variant first: publisherReady is not consulted)
SetupPlayAnswerNoReadyCheck(name, trackId) ==
    IF name \notin DOMAIN paths THEN "noOnePublishing"
    ELSE IF trackId >= paths[name].publisherSdp THEN "noTrack"
    ELSE "ok"
SetupPlayAnswer(name, trackId) ==
    IF name \notin DOMAIN paths \/ ~paths[name].publisherReady THEN "noOnePublishing"
    ELSE IF trackId >= paths[name].publisherSdp THEN "noTrack"
    ELSE "ok"

\* the RTP and RTCP port a client announces for a track
rtpPort(trackId) == 2 * trackId
rtcpPort(trackId) == 2 * trackId + 1
makeUdpClientAddr(c, port) == <<c, port>>

\* lines 269-285: the addresses registered when client c enters record state
RecordAddrs(c) ==
    IF clients[c].streamProtocol # "udp" THEN {}
    ELSE {makeUdpClientAddr(c, rtpPort(t)) : t \in clients[c].streamTracks}
         \cup {makeUdpClientAddr(c, rtcpPort(t)) : t \in clients[c].streamTracks}
\* (faulty variant: every port is registered as an RTP port)
RecordEntryAllRtp(key) ==
    [client |-> key[1], trackId |-> key[2] \div 2, streamType |-> "rtp"]
RecordEntry(key) ==
    [client |-> key[1], trackId |-> key[2] \div 2,
     streamType |-> IF key[2] % 2 = 0 THEN "rtp" ELSE "rtcp"]

\* path.onPublisherSetReady: the path becomes ready and the parked describes
\* are answered with the description
ParkedAnswered(cl, name) ==
    [c \in Clients |->
        IF cl[c].state = "waitingDescription" /\ cl[c].path = name THEN newClient ELSE cl[c]]

\* path.onPublisherSetNotReady: the readers of the path are detached
ReadersDetached(cl, name) ==
    [c \in Clients |->
        IF cl[c].state \in {"prePlay", "play"} /\ cl[c].path = name THEN newClient ELSE cl[c]]
PlayingOn(cl, name) ==
    Cardinality({c \in Clients : cl[c].state = "play" /\ cl[c].path = name})

IsPublisherOf(c, name) == name \in DOMAIN paths /\ paths[name].publisher = c

\* client.close(): the client leaves program.clients, the counters and the
\* address table; a publisher leaves its path, whose readers are detached
ClientCloseEffect(c, endState) ==
    LET name == clients[c].path
        wasPub == IsPublisherOf(c, name)
        cl1 == IF wasPub THEN ReadersDetached(clients, name) ELSE clients
    IN  /\ clients' = [cl1 EXCEPT ![c] = [NoClient EXCEPT !.state = endState]]
        /\ paths' = IF wasPub
                      THEN [paths EXCEPT ![name].publisher = NoPublisher,
                                         ![name].publisherReady = FALSE,
                                         ![name].publisherSdp = 0]
                      ELSE paths
        /\ readerCount' = readerCount
                          - (IF clients[c].state = "play" THEN 1 ELSE 0)
                          - (IF wasPub THEN PlayingOn(clients, name) ELSE 0)
        /\ publisherCount' = publisherCount - (IF clients[c].state = "record" THEN 1 ELSE 0)
        /\ udpClientsByAddr' =
              [k \in {k \in DOMAIN udpClientsByAddr : udpClientsByAddr[k].client # c}
                 |-> udpClientsByAddr[k]]

\* the requests a client's session lets it send (RTSP method order)
CanDescribe(c) == clients[c].state = "initial"
CanAnnounce(c) == clients[c].state = "initial"
CanSetupPlay(c, name, trackId, proto) ==
    \/ clients[c].state = "initial"
    \/ /\ clients[c].state = "prePlay"
       /\ clients[c].path = name
       /\ clients[c].streamProtocol = proto
       /\ trackId \notin clients[c].streamTracks
CanPlay(c) == clients[c].state = "prePlay"
CanRecord(c) == clients[c].state = "preRecord"

\* ----------------------------------------------------------------- Init

ProgInit ==
    /\ conf \in Confs
    /\ paths = [n \in ConfiguredPaths |-> newPath(conf[n], TRUE)]
    /\ clients = [c \in Clients |-> NoClient]
    /\ udpClientsByAddr = <<>>
    /\ publisherCount = 0
    /\ readerCount = 0
    /\ terminate = FALSE
    /\ chansClosed = 0
    /\ done = FALSE
    /\ serversClosed = FALSE
    /\ runPc = "init"
    /\ closePc = "idle"
    /\ drain = "notStarted"
    /\ fwd = NoForward
    /\ last = Internal("newProgram")

SrcIdle ==
    /\ srcKind = "-"
    /\ srcTracks = {}
    /\ readerPc = "-"
    /\ outerPc = "-"
    /\ ctxDone = FALSE
    /\ connClosed = FALSE
    /\ events = <<>>
    /\ readerRes = "-"
    /\ runResult = "-"
    /\ runs = 0

\* the frame counters are not kept by Spec
SeqIdle ==
    /\ produced = 0
    /\ got = <<>>

RecIdle ==
    /\ recFormat = "-"
    /\ recCodec = <<>>
    /\ recSegment = "-"
    /\ recStarted = FALSE
    /\ recLastPTS = 0
    /\ recWriter = "-"
    /\ recPc = "-"
    /\ recCtxDone = FALSE
    /\ recClosePc = "-"
    /\ recLog = <<>>
    /\ recLast = <<>>

\* no external command, no library call
AuxIdle ==
    /\ cmd = "-"
    /\ lib = "-"
    /\ buf = "-"
    /\ metrics = "-"

Init == ProgInit /\ SrcIdle /\ RecIdle /\ SeqIdle /\ AuxIdle

shutdownVars == <<terminate, chansClosed, done, serversClosed, runPc, closePc, drain>>
tableVars == <<udpClientsByAddr, publisherCount, readerCount>>

\* ------------------------------------------------- program.run: main loop

\* lines 184-186: onInit on every path created by newProgram
RunInit ==
    /\ runPc = "init"
    /\ runPc' = "loop"
    /\ paths' = [n \in DOMAIN paths |-> [paths[n] EXCEPT !.inited = TRUE]]
    /\ last' = Internal("onInit")
    /\ UNCHANGED <<conf, clients, tableVars, terminate, chansClosed, done,
                   serversClosed, closePc, drain, fwd, restVars>>

\* path.onCheck: a dynamic path nobody publishes to, reads or waits on is removed
Removable(n) ==
    /\ ~paths[n].permanent
    /\ paths[n].publisher = NoPublisher
    /\ \A c \in Clients : clients[c].path # n

\* lines 194-197: the ticker; expired says whether the parked describes timed out
CheckPaths(expired) ==
    /\ runPc = "loop"
    /\ paths' = [n \in {m \in DOMAIN paths : ~Removable(m)} |-> paths[n]]
    /\ clients' = [c \in Clients |->
                      IF expired /\ clients[c].state = "waitingDescription"
                      THEN newClient ELSE clients[c]]
    /\ last' = Event("checkPaths", 0, NoPath, -1, IF expired THEN "expired" ELSE "none", "loop")
    /\ UNCHANGED <<conf, tableVars, shutdownVars, fwd, restVars>>

\* lines 199-204
MetricsGather ==
    /\ runPc = "loop"
    /\ last' = Event("metricsGather", 0, NoPath, -1, "data", "loop")
    /\ UNCHANGED <<conf, paths, clients, tableVars, shutdownVars, fwd, restVars>>

\* lines 206-209
ClientNew(c) ==
    /\ runPc = "loop"
    /\ clients[c].state = "none"
    /\ clients' = [clients EXCEPT ![c] = newClient]
    /\ last' = Event("clientNew", c, NoPath, -1, "none", "loop")
    /\ UNCHANGED <<conf, paths, tableVars, shutdownVars, fwd, restVars>>

\* lines 211-215
ClientClose(c) ==
    /\ runPc = "loop"
    /\ c \in Registered
    /\ ClientCloseEffect(c, "none")
    /\ last' = Event("clientClose", c, clients[c].path, -1, "none", "loop")
    /\ UNCHANGED <<conf, shutdownVars, fwd, restVars>>

\* lines 217-223, with path.onDescribe: a ready path answers with its
\* description, any other path parks the request
ClientDescribe(c, name) ==
    /\ runPc = "loop"
    /\ c \in Registered
    /\ CanDescribe(c)
    /\ ConfMatches(name)
    /\ paths' = WithPath(name)
    /\ IF WithPath(name)[name].publisherReady
       THEN /\ clients' = clients
            /\ last' = Event("describe", c, name, -1, "ok", "loop")
       ELSE /\ clients' = [clients EXCEPT ![c].state = "waitingDescription",
                                          ![c].path = name]
            /\ last' = Event("describe", c, name, -1, "parked", "loop")
    /\ UNCHANGED <<conf, tableVars, shutdownVars, fwd, restVars>>

\* a describe or announce request for a path name no configuration matches
\* is refused by the session and never reaches the control loop
ClientRefused(kind, c, name) ==
    /\ runPc \in {"loop", "forward"}
    /\ c \in Registered
    /\ \/ kind = "describeRefused" /\ CanDescribe(c)
       \/ kind = "announceRefused" /\ CanAnnounce(c)
    /\ ~ConfMatches(name)
    /\ last' = Event(kind, c, name, -1, "noConfMatches", "session")
    /\ UNCHANGED <<conf, paths, clients, tableVars, shutdownVars, fwd, restVars>>

\* lines 225-243; the client then sets up every announced track
ClientAnnounce(c, name, sdp, proto) ==
    /\ runPc = "loop"
    /\ c \in Registered
    /\ CanAnnounce(c)
    /\ ConfMatches(name)
    /\ IF HasPublisher(name)
       THEN /\ last' = Event("announce", c, name, -1, "alreadyPublishing", "loop")
            /\ UNCHANGED <<paths, clients>>
       ELSE /\ paths' = [WithPath(name) EXCEPT ![name].publisher = c,
                                               ![name].publisherSdp = sdp]
            /\ clients' = [clients EXCEPT ![c].path = name,
                                          ![c].state = "preRecord",
                                          ![c].streamTracks = 0..(sdp - 1),
                                          ![c].streamProtocol = proto]
            /\ last' = Event("announce", c, name, -1, "ok", "loop")
    /\ UNCHANGED <<conf, tableVars, shutdownVars, fwd, restVars>>

\* lines 245-259; after a nil answer the client stores the track
ClientSetupPlay(c, name, trackId, proto) ==
    /\ runPc = "loop"
    /\ c \in Registered
    /\ CanSetupPlay(c, name, trackId, proto)
    /\ LET res == SetupPlayAnswer(name, trackId)
       IN  /\ last' = Event("setupPlay", c, name, trackId, res, "loop")
           /\ IF res = "ok"
              THEN clients' = [clients EXCEPT
                                  ![c].path = name,
                                  ![c].state = "prePlay",
                                  ![c].streamTracks = clients[c].streamTracks \cup {trackId},
                                  ![c].streamProtocol = proto]
              ELSE clients' = clients
    /\ UNCHANGED <<conf, paths, tableVars, shutdownVars, fwd, restVars>>

\* lines 261-263
ClientPlay(c) ==
    /\ runPc = "loop"
    /\ c \in Registered
    /\ CanPlay(c)
    /\ readerCount' = readerCount + 1
    /\ clients' = [clients EXCEPT ![c].state = "play"]
    /\ last' = Event("play", c, clients[c].path, -1, "none", "loop")
    /\ UNCHANGED <<conf, paths, udpClientsByAddr, publisherCount, shutdownVars, fwd, restVars>>

\* lines 265-287, with path.onPublisherSetReady
ClientRecord(c) ==
    /\ runPc = "loop"
    /\ c \in Registered
    /\ CanRecord(c)
    /\ publisherCount' = publisherCount + 1
    /\ udpClientsByAddr' =
          [k \in DOMAIN udpClientsByAddr \cup RecordAddrs(c) |->
              IF k \in RecordAddrs(c) THEN RecordEntry(k) ELSE udpClientsByAddr[k]]
    /\ paths' = [paths EXCEPT ![clients[c].path].publisherReady = TRUE]
    /\ clients' = ParkedAnswered([clients EXCEPT ![c].state = "record"], clients[c].path)
    /\ last' = Event("record", c, clients[c].path, -1, "none", "loop")
    /\ UNCHANGED <<conf, readerCount, shutdownVars, fwd, restVars>>

\* the static source of a path is running and has something to report
SourceRunning(name) ==
    /\ name \in DOMAIN paths
    /\ paths[name].publisher = SourcePublisher
    /\ paths[name].inited
    /\ ~paths[name].closed

\* lines 306-308, with path.onPublisherSetReady
SourceReady(name, sdp) ==
    /\ runPc = "loop"
    /\ SourceRunning(name)
    /\ ~paths[name].publisherReady
    /\ paths' = [paths EXCEPT ![name].publisherReady = TRUE, ![name].publisherSdp = sdp]
    /\ clients' = ParkedAnswered(clients, name)
    /\ last' = Event("sourceReady", 0, name, -1, "none", "loop")
    /\ UNCHANGED <<conf, tableVars, shutdownVars, fwd, restVars>>

\* lines 310-312, with path.onPublisherSetNotReady
SourceNotReady(name) ==
    /\ runPc = "loop"
    /\ SourceRunning(name)
    /\ paths[name].publisherReady
    /\ paths' = [paths EXCEPT ![name].publisherReady = FALSE]
    /\ clients' = ReadersDetached(clients, name)
    /\ readerCount' = readerCount - PlayingOn(clients, name)
    /\ last' = Event("sourceNotReady", 0, name, -1, "none", "loop")
    /\ UNCHANGED <<conf, udpClientsByAddr, publisherCount, shutdownVars, fwd, restVars>>

\* ------------------------------------------------- frames, forwardFrame

StreamTypes == {"rtp", "rtcp"}

\* lines 417-428: the clients a frame of a track of a path is forwarded to
\* (faulty variant first: the path of the client is not looked at)
ForwardTargetsAnyPath(path, trackId) ==
    {c \in Registered : /\ clients[c].state = "play"
                        /\ trackId \in clients[c].streamTracks}
ForwardTargets(path, trackId) ==
    {c \in Registered : /\ clients[c].path = path
                        /\ clients[c].state = "play"
                        /\ trackId \in clients[c].streamTracks}

\* lines 416-457: forwardFrame ranges over p.clients in the order of the map;
\* with no client to serve it returns at once
forwardFrame(path, trackId) ==
    LET targets == ForwardTargets(path, trackId)
    IN  IF targets = {}
        THEN UNCHANGED <<runPc, fwd>>
        ELSE /\ runPc' = "forward"
             /\ \E c \in targets :
                   fwd' = [cur |-> c, rest |-> targets \ {c}, path |-> path, track |-> trackId]

\* the range goes on to the next client, or forwardFrame returns to the loop
\* (faulty variant first: the client just served is served again)
ForwardAdvanceAgain == UNCHANGED <<runPc, fwd>>
ForwardAdvance ==
    IF fwd.rest = {}
    THEN runPc' = "loop" /\ fwd' = NoForward
    ELSE /\ runPc' = runPc
         /\ \E d \in fwd.rest : fwd' = [fwd EXCEPT !.cur = d, !.rest = fwd.rest \ {d}]

\* lines 430-447: the frame is written to the UDP socket of the client
ForwardUdp ==
    /\ runPc = "forward"
    /\ clients[fwd.cur].streamProtocol = "udp"
    /\ ForwardAdvance
    /\ last' = Event("frameOut", fwd.cur, fwd.path, fwd.track, "udp", "forward")
    /\ UNCHANGED <<conf, paths, clients, tableVars, terminate, chansClosed, done,
                   serversClosed, closePc, drain, srcVars, recVars, auxVars>>

\* lines 449-455: c.tcpFrame <- frame returns once the client has received
ForwardTcp ==
    /\ runPc = "forward"
    /\ clients[fwd.cur].streamProtocol = "tcp"
    /\ ForwardAdvance
    /\ last' = Event("frameOut", fwd.cur, fwd.path, fwd.track, "tcp", "forward")
    /\ UNCHANGED <<conf, paths, clients, tableVars, terminate, chansClosed, done,
                   serversClosed, closePc, drain, srcVars, recVars, auxVars>>

\* the control loop is inside forwardFrame, sending to c.tcpFrame
LoopBlockedOn(c) ==
    runPc = "forward" /\ fwd.cur = c /\ clients[c].streamProtocol = "tcp"

\* a publisher over TCP sends the frames of the tracks it announced
CanSendFrameTcp(c, trackId) ==
    /\ clients[c].state = "record"
    /\ clients[c].streamProtocol = "tcp"
    /\ trackId \in clients[c].streamTracks

\* the addresses a UDP packet can come from
UdpAddrs == {makeUdpClientAddr(c, port) : c \in Clients, port \in 0..(2 * MaxMedias)}

\* lines 289-294: a packet read by the RTP or the RTCP listener
ClientFrameUdp(addr, streamType) ==
    /\ runPc = "loop"
    /\ IF addr \notin DOMAIN udpClientsByAddr
       THEN /\ last' = Event("clientFrameUdp", 0, NoPath, -1, "unknown", "loop")
            /\ UNCHANGED <<runPc, fwd>>
       ELSE LET pub == udpClientsByAddr[addr]
            IN  IF pub.streamType # streamType
                THEN /\ last' = Event("clientFrameUdp", pub.client, NoPath, -1,
                                      "wrongType", "loop")
                     /\ UNCHANGED <<runPc, fwd>>
                ELSE /\ last' = Event("clientFrameUdp", pub.client,
                                      clients[pub.client].path, pub.trackId,
                                      streamType, "loop")
                     /\ forwardFrame(clients[pub.client].path, pub.trackId)
    /\ UNCHANGED <<conf, paths, clients, tableVars, terminate, chansClosed, done,
                   serversClosed, closePc, drain, srcVars, recVars, auxVars>>

\* lines 296-298
ClientFrameTcp(c, trackId, streamType) ==
    /\ runPc = "loop"
    /\ c \in Registered
    /\ CanSendFrameTcp(c, trackId)
    /\ last' = Event("clientFrameTcp", c, clients[c].path, trackId, streamType, "loop")
    /\ forwardFrame(clients[c].path, trackId)
    /\ UNCHANGED <<conf, paths, clients, tableVars, terminate, chansClosed, done,
                   serversClosed, closePc, drain, srcVars, recVars, auxVars>>

\* lines 313-315: a frame read by the static source of a ready path
SourceFrame(name, trackId, streamType) ==
    /\ runPc = "loop"
    /\ SourceRunning(name)
    /\ paths[name].publisherReady
    /\ trackId < paths[name].publisherSdp
    /\ last' = Event("sourceFrame", 0, name, trackId, streamType, "loop")
    /\ forwardFrame(name, trackId)
    /\ UNCHANGED <<conf, paths, clients, tableVars, terminate, chansClosed, done,
                   serversClosed, closePc, drain, srcVars, recVars, auxVars>>

\* ------------------------------------------------ program.close, shutdown

\* line 400: close(p.terminate)
ProgramClose ==
    /\ closePc = "idle"
    /\ runPc # "init"
    /\ terminate' = TRUE
    /\ closePc' = "waiting"
    /\ last' = Internal("close")
    /\ UNCHANGED <<conf, paths, clients, tableVars, chansClosed, done, serversClosed,
                   runPc, drain, fwd, restVars>>

\* lines 317-350: the loop takes the terminate case and starts the draining goroutine
RunTerminate ==
    /\ runPc = "loop"
    /\ terminate
    /\ runPc' = "closePaths"
    /\ drain' = "running"
    /\ last' = Internal("terminate")
    /\ UNCHANGED <<conf, paths, clients, tableVars, terminate, chansClosed, done,
                   serversClosed, closePc, fwd, restVars>>

\* path.onClose: the source is stopped and the parked describes are failed
PathClosed(pa) == [pa EXCEPT !.closed = TRUE, !.publisherReady = FALSE]

\* lines 352-354
RunClosePaths ==
    /\ runPc = "closePaths"
    /\ paths' = [n \in DOMAIN paths |-> PathClosed(paths[n])]
    /\ clients' = [c \in Clients |->
                      IF clients[c].state = "waitingDescription" THEN newClient ELSE clients[c]]
    /\ runPc' = "closeServers"
    /\ last' = Internal("onClose")
    /\ UNCHANGED <<conf, tableVars, terminate, chansClosed, done, serversClosed,
                   closePc, drain, fwd, restVars>>

\* lines 356-364
RunCloseServers ==
    /\ runPc = "closeServers"
    /\ serversClosed' = TRUE
    /\ runPc' = "closeClients"
    /\ last' = Internal("serversClose")
    /\ UNCHANGED <<conf, paths, clients, tableVars, terminate, chansClosed, done,
                   closePc, drain, fwd, restVars>>

\* line 367: c.close() on the next client of p.clients
RunCloseClient(c) ==
    /\ runPc = "closeClients"
    /\ c \in Registered
    /\ \A d \in Clients : clients[d].state # "closing"
    /\ ClientCloseEffect(c, "closing")
    /\ last' = Event("close", c, clients[c].path, -1, "none", "run")
    /\ UNCHANGED <<conf, shutdownVars, fwd, restVars>>

\* line 368: <-c.done
RunClientDone(c) ==
    /\ runPc = "closeClients"
    /\ clients[c].state = "closing"
    /\ clients' = [clients EXCEPT ![c] = NoClient]
    /\ last' = Event("done", c, NoPath, -1, "none", "run")
    /\ UNCHANGED <<conf, paths, tableVars, shutdownVars, fwd, restVars>>

\* line 366: the range over p.clients has ended
\* (faulty variant first: the loop does not wait for the clients)
ClientsLoopEndedEarly == TRUE
ClientsLoopEnded == Registered = {} /\ \A d \in Clients : clients[d].state # "closing"

\* lines 371-381: metrics, pprof and the log file are closed
RunCloseAux ==
    /\ runPc = "closeClients"
    /\ ClientsLoopEnded
    /\ runPc' = "closeChans"
    /\ last' = Internal("auxClose")
    /\ UNCHANGED <<conf, paths, clients, tableVars, terminate, chansClosed, done,
                   serversClosed, closePc, drain, fwd, restVars>>

\* lines 383-395: the request channels are closed one after the other
RunCloseChan ==
    /\ runPc = "closeChans"
    /\ chansClosed < Len(Chans)
    /\ chansClosed' = chansClosed + 1
    /\ last' = Internal("closeChan")
    /\ UNCHANGED <<conf, paths, clients, tableVars, terminate, done, serversClosed,
                   runPc, closePc, drain, fwd, restVars>>

\* line 396: close(p.done)
RunCloseDone ==
    /\ runPc = "closeChans"
    /\ chansClosed = Len(Chans)
    /\ done' = TRUE
    /\ runPc' = "exited"
    /\ last' = Internal("closeDone")
    /\ UNCHANGED <<conf, paths, clients, tableVars, terminate, chansClosed, serversClosed,
                   closePc, drain, fwd, restVars>>

\* line 401: <-p.done
CloseReturn ==
    /\ closePc = "waiting"
    /\ done
    /\ closePc' = "returned"
    /\ last' = Internal("closeReturn")
    /\ UNCHANGED <<conf, paths, clients, tableVars, terminate, chansClosed, done,
                   serversClosed, runPc, drain, fwd, restVars>>

\* ------------------------------------------------ the draining goroutine

\* lines 325-348: what the goroutine answers to a request it receives
\* (faulty variant first: no request is answered)
DrainAnswerNothing(kind) == "none"
DrainAnswer(kind) ==
    IF kind \in {"announce", "setupPlay"} THEN "terminated"
    ELSE IF kind = "metricsGather" THEN "nil"
    ELSE "none"

DrainOpen(ch) == drain = "running" /\ ~ChanClosed(ch)

\* a client that has not been closed yet can still send any request of its session
CanSetupPlaySome(c) == clients[c].state \in {"initial", "prePlay"}

\* lines 333-339: a client's request is received by the draining goroutine,
\* which does not look at what is asked
DrainDescribe(c) ==
    /\ DrainOpen("clientDescribe")
    /\ c \in Registered /\ CanDescribe(c)
    /\ last' = Event("describe", c, NoPath, -1, DrainAnswer("describe"), "drain")
    /\ UNCHANGED <<conf, paths, clients, tableVars, shutdownVars, fwd, restVars>>

DrainAnnounce(c) ==
    /\ DrainOpen("clientAnnounce")
    /\ c \in Registered /\ CanAnnounce(c)
    /\ last' = Event("announce", c, NoPath, -1, DrainAnswer("announce"), "drain")
    /\ UNCHANGED <<conf, paths, clients, tableVars, shutdownVars, fwd, restVars>>

DrainSetupPlay(c) ==
    /\ DrainOpen("clientSetupPlay")
    /\ c \in Registered /\ CanSetupPlaySome(c)
    /\ last' = Event("setupPlay", c, NoPath, -1, DrainAnswer("setupPlay"), "drain")
    /\ UNCHANGED <<conf, paths, clients, tableVars, shutdownVars, fwd, restVars>>

\* clientPlay, clientRecord, clientClose: received and dropped
DrainClientEvent(kind, c) ==
    /\ \/ kind = "play" /\ DrainOpen("clientPlay") /\ CanPlay(c)
       \/ kind = "record" /\ DrainOpen("clientRecord") /\ CanRecord(c)
       \/ kind = "clientClose" /\ DrainOpen("clientClose")
    /\ c \in Registered
    /\ last' = Event(kind, c, NoPath, -1, DrainAnswer(kind), "drain")
    /\ UNCHANGED <<conf, paths, clients, tableVars, shutdownVars, fwd, restVars>>

\* a new connection, a metrics request or a source event: received and dropped
DrainOther(kind) ==
    /\ \/ kind = "clientNew" /\ DrainOpen("clientNew") /\ ~serversClosed
       \/ kind = "metricsGather" /\ DrainOpen("metricsGather")
                                 /\ runPc \in {"closePaths", "closeServers", "closeClients"}
       \/ kind = "sourceReady" /\ DrainOpen("sourceReady")
                               /\ \E n \in PathNames : SourceRunning(n)
    /\ last' = Event(kind, 0, NoPath, -1, DrainAnswer(kind), "drain")
    /\ UNCHANGED <<conf, paths, clients, tableVars, shutdownVars, fwd, restVars>>

\* lines 341-347: a frame is received and dropped
DrainFrame(kind) ==
    /\ DrainOpen(kind)
    /\ \/ kind = "clientFrameUdp" /\ ~serversClosed
       \/ kind = "clientFrameTcp" /\ \E c \in Registered, t \in 0..(MaxMedias - 1) :
                                        CanSendFrameTcp(c, t)
       \/ kind = "sourceFrame" /\ \E n \in PathNames : SourceRunning(n)
    /\ last' = Event(kind, 0, NoPath, -1, DrainAnswer(kind), "drain")
    /\ UNCHANGED <<conf, paths, clients, tableVars, shutdownVars, fwd, restVars>>

\* a receive from a closed channel yields the zero request: the metricsGather
\* case returns, the announce and setup-play cases send on a nil channel, the
\* other cases go round the loop
DrainZeroValue(ch) ==
    /\ drain = "running"
    /\ ChanClosed(ch)
    /\ drain' = IF ch = "metricsGather" THEN "returned"
                ELSE IF ch \in {"clientAnnounce", "clientSetupPlay"} THEN "blocked"
                ELSE "running"
    /\ last' = Event("zero", 0, NoPath, -1, "none", "drain")
    /\ UNCHANGED <<conf, paths, clients, tableVars, terminate, chansClosed, done,
                   serversClosed, runPc, closePc, fwd, restVars>>

Protocols == {"udp", "tcp"}

\* the cases of the select at line 193 other than terminate
LoopEvent ==
    \/ \E expired \in BOOLEAN : CheckPaths(expired)
    \/ MetricsGather
    \/ \E c \in Clients : ClientNew(c)
    \/ \E c \in Clients : ClientClose(c)
    \/ \E c \in Clients, n \in PathNames : ClientDescribe(c, n)
    \/ \E c \in Clients, n \in PathNames, sdp \in 1..MaxMedias, pr \in Protocols :
          ClientAnnounce(c, n, sdp, pr)
    \/ \E c \in Clients, n \in PathNames, t \in 0..MaxMedias, pr \in Protocols :
          ClientSetupPlay(c, n, t, pr)
    \/ \E c \in Clients : ClientPlay(c)
    \/ \E c \in Clients : ClientRecord(c)
    \/ \E n \in PathNames, sdp \in 1..MaxMedias : SourceReady(n, sdp)
    \/ \E n \in PathNames : SourceNotReady(n)
    \/ \E c \in Clients, n \in PathNames, k \in {"describeRefused", "announceRefused"} :
          ClientRefused(k, c, n)

\* the frame cases of the select
FrameIn ==
    \/ \E a \in UdpAddrs, st \in StreamTypes : ClientFrameUdp(a, st)
    \/ \E c \in Clients, t \in 0..(MaxMedias - 1), st \in StreamTypes : ClientFrameTcp(c, t, st)
    \/ \E n \in PathNames, t \in 0..(MaxMedias - 1), st \in StreamTypes : SourceFrame(n, t, st)

\* the steps of forwardFrame
FrameOut ==
    \/ ForwardUdp
    \/ ForwardTcp

Next ==
    \/ RunInit
    \/ LoopEvent
    \/ FrameIn /\ UNCHANGED seqVars
    \/ FrameOut /\ UNCHANGED seqVars
    \/ ProgramClose
    \/ RunTerminate
    \/ RunClosePaths
    \/ RunCloseServers
    \/ \E c \in Clients : RunCloseClient(c)
    \/ \E c \in Clients : RunClientDone(c)
    \/ RunCloseAux
    \/ RunCloseChan
    \/ RunCloseDone
    \/ CloseReturn
    \/ \E c \in Clients : DrainDescribe(c)
    \/ \E c \in Clients : DrainAnnounce(c)
    \/ \E c \in Clients : DrainSetupPlay(c)
    \/ \E c \in Clients, k \in {"play", "record", "clientClose"} : DrainClientEvent(k, c)
    \/ \E k \in {"clientNew", "metricsGather", "sourceReady"} : DrainOther(k)
    \/ \E k \in {"clientFrameUdp", "clientFrameTcp", "sourceFrame"} : DrainFrame(k)
    \/ \E i \in 1..Len(Chans) : DrainZeroValue(Chans[i])

Spec == Init /\ [][Next]_vars

\* the scheduling the shutdown relies on: a select whose terminate case is
\* ready again and again takes it in the end, run() and close() go on whenever
\* they can, a UDP write returns, and a closed client signals done.  Nothing
\* makes a reader receive from its tcpFrame channel.
Fairness ==
    /\ SF_vars(RunTerminate)
    /\ WF_vars(ForwardUdp /\ UNCHANGED seqVars)
    /\ WF_vars(RunClosePaths)
    /\ WF_vars(RunCloseServers)
    /\ WF_vars(\E c \in Clients : RunCloseClient(c))
    /\ WF_vars(\E c \in Clients : RunClientDone(c))
    /\ WF_vars(RunCloseAux)
    /\ WF_vars(RunCloseChan)
    /\ WF_vars(RunCloseDone)
    /\ WF_vars(CloseReturn)

LiveSpec == Init /\ [][Next]_vars /\ Fairness

\* ------------------------------------------------------ frames, numbered
\* The control loop with a publisher in place: the frames the loop receives
\* are numbered in the order of their receipt, and every client keeps the
\* numbers of the frames handed to it.

\* the program after startup, with the clients connected
FrameInit ==
    /\ conf \in Confs
    /\ paths = [n \in ConfiguredPaths |-> [newPath(conf[n], TRUE) EXCEPT !.inited = TRUE]]
    /\ udpClientsByAddr = <<>>
    /\ clients = [c \in Clients |-> newClient]
    /\ publisherCount = 0
    /\ readerCount = 0
    /\ terminate = FALSE
    /\ chansClosed = 0
    /\ done = FALSE
    /\ serversClosed = FALSE
    /\ runPc = "loop"
    /\ closePc = "idle"
    /\ drain = "notStarted"
    /\ fwd = NoForward
    /\ last = Internal("onInit")
    /\ produced = 0
    /\ got = [c \in Clients |-> <<>>]
    /\ SrcIdle
    /\ RecIdle
    /\ AuxIdle

\* a frame of a publisher is received and gets the next number
FrameInNumbered ==
    /\ produced < MaxFrames
    /\ FrameIn
    /\ produced' = IF last'.track = -1 THEN produced ELSE produced + 1
    /\ got' = got

\* the frame is handed to the client forwardFrame is at
FrameOutNumbered ==
    /\ FrameOut
    /\ produced' = produced
    /\ got' = [got EXCEPT ![fwd.cur] = Append(@, produced)]

\* the requests that set up publishers and readers
FrameSetup ==
    \/ \E c \in Clients, n \in PathNames, sdp \in 1..MaxMedias, pr \in Protocols :
          ClientAnnounce(c, n, sdp, pr)
    \/ \E c \in Clients : ClientRecord(c)
    \/ \E n \in PathNames, sdp \in 1..MaxMedias : SourceReady(n, sdp)
    \/ \E c \in Clients, n \in PathNames, t \in 0..MaxMedias, pr \in Protocols :
          ClientSetupPlay(c, n, t, pr)
    \/ \E c \in Clients : ClientPlay(c)

FrameNext ==
    \/ FrameSetup
    \/ FrameInNumbered
    \/ FrameOutNumbered

FrameSpec == FrameInit /\ [][FrameNext]_vars

\* ------------------------------------------------------- static sources
\* rtmpSource.run (rtmp_source.go) and udpSource.run / runReader
\* (udp_source.go): run() starts a reader goroutine and waits for its result
\* or for the context; the reader calls SetReady on the parent, writes units
\* to the stream it got and calls SetNotReady when it returns.

ProgIdle ==
    /\ conf = <<>>
    /\ paths = <<>>
    /\ clients = <<>>
    /\ udpClientsByAddr = <<>>
    /\ publisherCount = 0
    /\ readerCount = 0
    /\ terminate = FALSE
    /\ chansClosed = 0
    /\ done = FALSE
    /\ serversClosed = FALSE
    /\ runPc = "-"
    /\ closePc = "-"
    /\ drain = "-"
    /\ fwd = NoForward
    /\ last = Internal("-")

SrcKinds == {"rtmp", "udp"}
TrackSets == SUBSET {"video", "audio"}

SrcStart(kind) ==
    /\ srcKind = kind
    /\ srcTracks = {}
    /\ readerPc = "notStarted"
    /\ outerPc = "connect"
    /\ connClosed = FALSE
    /\ events = <<>>
    /\ readerRes = "-"
    /\ runResult = "-"

SourceInit ==
    /\ ProgIdle
    /\ RecIdle
    /\ SeqIdle
    /\ AuxIdle
    /\ \E kind \in SrcKinds : SrcStart(kind)
    /\ ctxDone = FALSE
    /\ runs = 1

Count(seq, e) == Cardinality({i \in 1..Len(seq) : seq[i] = e})

\* rtmp_source.go 55-97, udp_source.go 93-116: parsing the URL, dialling or
\* listening fails and run() returns before the reader is started
SrcConnectFail ==
    /\ outerPc = "connect"
    /\ outerPc' = "returned"
    /\ runResult' = "errConnect"
    /\ UNCHANGED <<srcKind, srcTracks, readerPc, ctxDone, connClosed, events, readerRes,
                   runs, progVars, recVars, seqVars, auxVars>>

\* rtmp_source.go 99-100, udp_source.go 118-120: the reader goroutine is started
SrcConnect ==
    /\ outerPc = "connect"
    /\ outerPc' = "select"
    /\ readerPc' = IF srcKind = "rtmp" THEN "initialize" ELSE "readTracks"
    /\ UNCHANGED <<srcKind, srcTracks, ctxDone, connClosed, events, readerRes, runResult,
                   runs, progVars, recVars, seqVars, auxVars>>

\* the reader function returns err: its deferred calls run, then the result is sent
ReaderReturn(err, deferred) ==
    /\ readerRes' = err
    /\ readerPc' = IF deferred THEN "deferred" ELSE "sending"

\* rtmp_source.go 102-107: conn.InitializeClient
RtmpInitialize(ok) ==
    /\ readerPc = "initialize"
    /\ ok => ~connClosed
    /\ IF ok THEN readerPc' = "readTracks" /\ readerRes' = readerRes
             ELSE ReaderReturn("errInitialize", FALSE)
    /\ UNCHANGED <<srcKind, srcTracks, outerPc, ctxDone, connClosed, events, runResult,
                   runs, progVars, recVars, seqVars, auxVars>>

\* rtmp_source.go 111-138: conn.ReadTracks; an H265 video track is refused
\* udp_source.go 137-241: mpegts.NewReader and one media per track
SrcReadTracks(ok, tracks, h265) ==
    /\ readerPc = "readTracks"
    /\ ok => ~connClosed
    /\ h265 => srcKind = "rtmp" /\ "video" \in tracks
    /\ IF ~ok
       THEN ReaderReturn("errTracks", FALSE) /\ srcTracks' = srcTracks
       ELSE IF h265
       THEN ReaderReturn("errH265", FALSE) /\ srcTracks' = srcTracks
       ELSE readerPc' = "setReady" /\ readerRes' = readerRes /\ srcTracks' = tracks
    /\ UNCHANGED <<srcKind, outerPc, ctxDone, connClosed, events, runResult, runs, progVars, recVars, seqVars, auxVars>>

\* rtmp_source.go 150-152, udp_source.go 251: the deferred SetNotReady is
\* registered only after SetReady has succeeded
\* (faulty variant first: the defer is missing)
DeferredNever(ok) == FALSE
Deferred(ok) == ok

\* rtmp_source.go 140-146, udp_source.go 243-249: sourceStaticImplSetReady
SrcSetReady(ok) ==
    /\ readerPc = "setReady"
    /\ events' = Append(events, IF ok THEN "SetReadyOk" ELSE "SetReadyErr")
    /\ IF ok THEN readerPc' = "loop" /\ readerRes' = readerRes
             ELSE ReaderReturn("errSetReady", Deferred(ok))
    /\ UNCHANGED <<srcKind, srcTracks, outerPc, ctxDone, connClosed, runResult, runs,
                   progVars, recVars, seqVars, auxVars>>

\* rtmp_source.go 160, udp_source.go 257: the read loop is entered after
\* SetReady has returned a stream
\* (faulty variant first: reading starts before SetReady has returned)
InReadLoopEarly == readerPc \in {"setReady", "loop"}
InReadLoop == readerPc = "loop"

\* rtmp_source.go 162-165, udp_source.go 259-262: a read fails; it always
\* fails once the connection has been closed
SrcReadError ==
    /\ InReadLoop
    /\ ReaderReturn("errRead", Deferred(TRUE))
    /\ UNCHANGED <<srcKind, srcTracks, outerPc, ctxDone, connClosed, events, runResult,
                   runs, progVars, recVars, seqVars, auxVars>>

\* rtmp_source.go 167-187: a video or audio message arrives; without the
\* track the reader returns an error, otherwise the unit is written unless
\* the write function fails, which is only logged ("LogWriteError").
\* udp_source.go 166-237: r.Read() calls the callback of the track
\* (faulty variant first: the error of the write function ends the reader)
SrcReadUnitWriteErrorReturned(track, writeOk) ==
    /\ InReadLoop
    /\ ~connClosed
    /\ srcKind = "udp" => track \in srcTracks /\ writeOk
    /\ IF track \notin srcTracks
       THEN /\ ReaderReturn(IF track = "video" THEN "errNoVideoTrack" ELSE "errNoAudioTrack",
                            Deferred(TRUE))
            /\ events' = events
       ELSE IF writeOk
       THEN /\ UNCHANGED <<readerPc, readerRes>>
            /\ Count(events, "WriteUnit") < MaxUnits
            /\ events' = Append(events, "WriteUnit")
       ELSE /\ ReaderReturn("errWrite", Deferred(TRUE))
            /\ Count(events, "LogWriteError") < MaxUnits
            /\ events' = Append(events, "LogWriteError")
    /\ UNCHANGED <<srcKind, srcTracks, outerPc, ctxDone, connClosed, runResult, runs,
                   progVars, recVars, seqVars, auxVars>>
SrcReadUnit(track, writeOk) ==
    /\ InReadLoop
    /\ ~connClosed
    /\ srcKind = "udp" => track \in srcTracks /\ writeOk
    /\ IF track \notin srcTracks
       THEN /\ ReaderReturn(IF track = "video" THEN "errNoVideoTrack" ELSE "errNoAudioTrack",
                            Deferred(TRUE))
            /\ events' = events
       ELSE /\ UNCHANGED <<readerPc, readerRes>>
            /\ Count(events, IF writeOk THEN "WriteUnit" ELSE "LogWriteError") < MaxUnits
            /\ events' = Append(events, IF writeOk THEN "WriteUnit" ELSE "LogWriteError")
    /\ UNCHANGED <<srcKind, srcTracks, outerPc, ctxDone, connClosed, runResult, runs,
                   progVars, recVars, seqVars, auxVars>>

\* rtmp_source.go 167-187: a message of another type; udp_source.go 259: a
\* read that completes no access unit
SrcReadOther ==
    /\ InReadLoop
    /\ ~connClosed
    /\ UNCHANGED <<srcVars, progVars, recVars, seqVars, auxVars>>

\* rtmp_source.go 150-152, udp_source.go 251: the deferred call
SrcDeferred ==
    /\ readerPc = "deferred"
    /\ events' = Append(events, "SetNotReady")
    /\ readerPc' = "sending"
    /\ UNCHANGED <<srcKind, srcTracks, outerPc, ctxDone, connClosed, readerRes, runResult,
                   runs, progVars, recVars, seqVars, auxVars>>

\* the context of the run is cancelled by the supervisor
SrcCancel ==
    /\ ~ctxDone
    /\ outerPc # "returned"
    /\ ctxDone' = TRUE
    /\ UNCHANGED <<srcKind, srcTracks, readerPc, outerPc, connClosed, events, readerRes,
                   runResult, runs, progVars, recVars, seqVars, auxVars>>

\* rtmp_source.go 194-196, udp_source.go 125-126: the reader's result arrives
SrcReaderDone ==
    /\ outerPc = "select"
    /\ readerPc = "sending"
    /\ readerPc' = "finished"
    /\ connClosed' = TRUE
    /\ runResult' = readerRes
    /\ outerPc' = "returned"
    /\ UNCHANGED <<srcKind, srcTracks, ctxDone, events, readerRes, runs, progVars, recVars, seqVars, auxVars>>

\* rtmp_source.go 198: a new configuration is received and ignored
SrcReloadConf ==
    /\ outerPc = "select"
    /\ srcKind = "rtmp"
    /\ UNCHANGED <<srcVars, progVars, recVars, seqVars, auxVars>>

\* (faulty variant first: run returns without receiving the reader's result)
SrcCtxDoneNoWait ==
    /\ outerPc = "select"
    /\ ctxDone
    /\ connClosed' = TRUE
    /\ outerPc' = "returned"
    /\ runResult' = IF srcKind = "rtmp" THEN "nil" ELSE "terminated"
    /\ UNCHANGED <<srcKind, srcTracks, readerPc, ctxDone, events, readerRes,
                   runs, progVars, recVars, seqVars, auxVars>>

\* rtmp_source.go 200-201, udp_source.go 128-129: the connection is closed
SrcCtxDone ==
    /\ outerPc = "select"
    /\ ctxDone
    /\ connClosed' = TRUE
    /\ outerPc' = "waitReader"
    /\ UNCHANGED <<srcKind, srcTracks, readerPc, ctxDone, events, readerRes, runResult,
                   runs, progVars, recVars, seqVars, auxVars>>

\* rtmp_source.go 202-203, udp_source.go 130-131
SrcWaitReader ==
    /\ outerPc = "waitReader"
    /\ readerPc = "sending"
    /\ readerPc' = "finished"
    /\ runResult' = IF srcKind = "rtmp" THEN "nil" ELSE "terminated"
    /\ outerPc' = "returned"
    /\ UNCHANGED <<srcKind, srcTracks, ctxDone, connClosed, events, readerRes, runs,
                   progVars, recVars, seqVars, auxVars>>

\* the supervisor starts the source again after run() has returned
SrcRestart ==
    /\ outerPc = "returned"
    /\ ~ctxDone
    /\ runs < MaxRuns
    /\ runs' = runs + 1
    /\ srcTracks' = {}
    /\ readerPc' = "notStarted"
    /\ outerPc' = "connect"
    /\ connClosed' = FALSE
    /\ events' = <<>>
    /\ readerRes' = "-"
    /\ runResult' = "-"
    /\ UNCHANGED <<srcKind, ctxDone, progVars, recVars, seqVars, auxVars>>

SourceNext ==
    \/ SrcConnectFail
    \/ SrcConnect
    \/ \E ok \in BOOLEAN : RtmpInitialize(ok)
    \/ \E ok \in BOOLEAN, tracks \in TrackSets, h265 \in BOOLEAN : SrcReadTracks(ok, tracks, h265)
    \/ \E ok \in BOOLEAN : SrcSetReady(ok)
    \/ SrcReadError
    \/ \E track \in {"video", "audio"}, writeOk \in BOOLEAN : SrcReadUnit(track, writeOk)
    \/ SrcReadOther
    \/ SrcDeferred
    \/ SrcCancel
    \/ SrcReaderDone
    \/ SrcReloadConf
    \/ SrcCtxDone
    \/ SrcWaitReader
    \/ SrcRestart

SourceSpec == SourceInit /\ [][SourceNext]_vars

\* ---------------------------------------------------------- the recorder
\* record.Agent (src/unnamed/part_000, lines 468-1370) recording one video
\* track: NewAgent builds the track's codec from the format, the callback it
\* registers with the stream is run by the asyncwriter for every unit, and
\* Agent.run waits for a writer error or for Close.

RecKinds == {"av1", "h264", "h265", "mpeg1video", "mpeg4video", "vp9"}

\* the formats whose codec NewAgent builds without looking at the format
\* (lines 660-666, 704-712, 1014-1022)
FixedKinds == {"av1", "mpeg1video", "vp9"}

\* the formats whose callback compares the PTS of a frame with lastPTS
MpegKinds == {"mpeg1video", "mpeg4video"}

\* the PTS of the frames of a stream (a time.Duration, which is signed)
MaxPTS == 1
PTSs == -1..MaxPTS

\* the fields of the fmp4 codec struct of a format
ParamNames(kind) ==
    CASE kind = "av1" -> {"sequenceHeader"}
      [] kind = "mpeg1video" -> {"config"}
      [] kind = "h264" -> {"sps", "pps"}
      [] kind = "h265" -> {"vps", "sps", "pps"}
      [] kind = "mpeg4video" -> {"config"}
      [] kind = "vp9" -> {"width", "height", "profile", "bitDepth", "chromaSubsampling",
                          "colorRange"}

\* the contents of the headers of the VP9 frames of a stream
Vp9Headers ==
    {[width |-> w, height |-> h, profile |-> c.profile, bitDepth |-> c.bitDepth,
      chromaSubsampling |-> c.chroma, colorRange |-> c.range] :
        w \in {1280, 640}, h \in {720, 480},
        c \in {[profile |-> 1, bitDepth |-> 8, chroma |-> 1, range |-> FALSE],
               [profile |-> 2, bitDepth |-> 10, chroma |-> 3, range |-> TRUE]}}

\* lines 705-712
Vp9Default ==
    [width |-> 1280, height |-> 720, profile |-> 1, bitDepth |-> 8,
     chromaSubsampling |-> 1, colorRange |-> FALSE]

\* lines 660-666, 704-712, 779-810, 875-895, 953-970, 1014-1022: the codec
\* NewAgent gives the track
\* (faulty variant first: a default is used only for the parameters that miss)
InitialCodecPerParameter(format) ==
    IF format.kind = "vp9" THEN Vp9Default
    ELSE IF format.kind \in FixedKinds THEN [p \in ParamNames(format.kind) |-> "default"]
    ELSE [p \in ParamNames(format.kind) |->
             IF format.params[p] = "nil" THEN "default" ELSE format.params[p]]
InitialCodec(format) ==
    IF format.kind = "vp9" THEN Vp9Default
    ELSE IF format.kind \in FixedKinds THEN [p \in ParamNames(format.kind) |-> "default"]
    ELSE IF \E p \in ParamNames(format.kind) : format.params[p] = "nil"
         THEN [p \in ParamNames(format.kind) |-> "default"]
         ELSE format.params

\* the units a stream of a format can carry: the parameters found in the unit
\* (has, val), whether it is a random access point (key), its PTS, whether it
\* fails to parse (bad: the VP9 or OBU header, the DTS or the sample of H264
\* and H265) and whether no AV1 sample can be made of it (badSample)
Units(kind) ==
    IF kind = "vp9"
    THEN {[empty |-> FALSE, has |-> ParamNames(kind), val |-> v, key |-> k, bad |-> b,
           badSample |-> FALSE, pts |-> 0] :
            v \in Vp9Headers, k \in BOOLEAN, b \in BOOLEAN}
    ELSE {[empty |-> FALSE, has |-> h,
           val |-> [p \in ParamNames(kind) |-> IF p \in h THEN x ELSE "default"],
           key |-> IF kind = "av1" THEN h # {} ELSE k \/ (kind \in MpegKinds /\ h # {}),
           bad |-> b /\ kind \notin MpegKinds,
           badSample |-> b2 /\ kind = "av1",
           pts |-> IF kind \in MpegKinds THEN t ELSE 0] :
            h \in {{}, ParamNames(kind)} \cup {{p} : p \in ParamNames(kind)},
            x \in {"A", "B"}, k \in BOOLEAN, b \in BOOLEAN, b2 \in BOOLEAN,
            t \in PTSs}
         \cup {[empty |-> TRUE, has |-> {},
                val |-> [p \in ParamNames(kind) |-> "default"], key |-> FALSE, bad |-> FALSE,
                badSample |-> FALSE, pts |-> t] : t \in IF kind \in MpegKinds THEN PTSs ELSE {0}}

\* lines 733-757, 826-842, 910-920, 987-991: the value the callback compares a
\* parameter of the codec with, and stores when they differ
Stored(kind, p, val) ==
    IF kind = "vp9" /\ p = "height" THEN val["width"] ELSE val[p]

\* lines 1361-1369 (faulty variant first: f is not looked at)
updateCodecsAlways(segment) == "nil"
updateCodecs(segment) == IF segment = "written" THEN "nil" ELSE segment

\* track.record: the sample goes to the current segment, which is created
\* when there is none; the outcome says whether a part was written to the file
TrackRecord(segment, outcome) ==
    IF outcome = "flushed" THEN "written" ELSE IF segment = "nil" THEN "created" ELSE segment

\* the asyncwriter stops at the first callback that returns an error and
\* makes the error available on Error()
WriterAfter(res) == IF res \in {"unitError", "writeError"} THEN "failed" ELSE "running"

\* lines 691-696, 759-764, 849-854, 927-932, 997-1002, 1049-1054: the gate of
\* a callback; TRUE when the unit goes on to the track
\* (faulty variant first: the gate is not latched)
FirstReceivedNotLatched(started, randomAccess) == randomAccess
FirstReceived(started, randomAccess) == started \/ randomAccess

\* lines 1002-1004, 1054-1056: the frame is rejected as a B-frame
\* (faulty variant first: lastPTS is compared before the first frame too)
BFrameAlways(started, pts, lastPTS) == pts < lastPTS
BFrame(started, pts, lastPTS) == started /\ pts < lastPTS

\* the callbacks of lines 668-702 (AV1), 717-774 (VP9), 814-873 (H265),
\* 899-951 (H264), 975-1012 (MPEG-4 Video) and 1036-1064 (MPEG-1 Video) on
\* unit u; outcome is what track.record does
Callback(u, outcome) ==
    LET kind == recFormat.kind
        looked == IF u.empty \/ (kind = "vp9" /\ (u.bad \/ ~u.key)) \/ (kind = "av1" /\ u.bad)
                  THEN {} ELSE u.has
        changed == {p \in looked : Stored(kind, p, u.val) # recCodec[p]}
        codec1 == [p \in DOMAIN recCodec |->
                      IF p \in changed THEN Stored(kind, p, u.val) ELSE recCodec[p]]
        seg1 == IF changed = {} THEN recSegment ELSE updateCodecs(recSegment)
        pts1 == IF kind \in MpegKinds THEN u.pts ELSE recLastPTS
        at(res, seg, started, pts) ==
            [codec |-> codec1, segment |-> seg, started |-> started, pts |-> pts,
             res |-> res, closed |-> recSegment # "nil" /\ seg1 = "nil"]
    IN  IF u.empty THEN at("empty", seg1, recStarted, recLastPTS)
        ELSE IF kind \in {"av1", "vp9"} /\ u.bad
             THEN at("unitError", seg1, recStarted, recLastPTS)
        ELSE IF ~FirstReceived(recStarted, u.key) THEN at("skipped", seg1, FALSE, recLastPTS)
        ELSE IF kind \in MpegKinds /\ BFrame(recStarted, u.pts, recLastPTS)
             THEN at("unitError", seg1, TRUE, recLastPTS)
        ELSE IF (kind \in {"h264", "h265"} /\ u.bad) \/ u.badSample
             THEN at("unitError", seg1, TRUE, recLastPTS)
        ELSE IF outcome = "error" THEN at("writeError", seg1, TRUE, pts1)
        ELSE at("recorded", TrackRecord(seg1, outcome), TRUE, pts1)

AgentInit ==
    /\ \E k \in RecKinds :
          \/ k \in FixedKinds /\ recFormat = [kind |-> k, params |-> <<>>]
          \/ k \notin FixedKinds /\ \E f \in [ParamNames(k) -> {"nil", "A"}] :
                              recFormat = [kind |-> k, params |-> f]
    /\ recCodec = InitialCodec(recFormat)
    /\ recSegment = "nil"
    /\ recStarted = FALSE
    /\ recLastPTS = 0
    /\ recWriter = "running"
    /\ recPc = "select"
    /\ recCtxDone = FALSE
    /\ recClosePc = "idle"
    /\ recLog = <<>>
    /\ recLast = [kind |-> "newAgent"]
    /\ ProgIdle
    /\ SrcIdle
    /\ SeqIdle
    /\ AuxIdle

\* the asyncwriter runs the callback on the next unit of the stream
RecUnit(u, outcome) ==
    /\ recPc = "select"
    /\ recWriter = "running"
    /\ LET r == Callback(u, outcome)
       IN  /\ recCodec' = r.codec
           /\ recSegment' = r.segment
           /\ recStarted' = r.started
           /\ recLastPTS' = r.pts
           /\ recWriter' = WriterAfter(r.res)
           /\ recLast' = [kind |-> "unit", unit |-> u, res |-> r.res, closed |-> r.closed]
    /\ UNCHANGED <<recFormat, recPc, recCtxDone, recClosePc, recLog, progVars, srcVars,
                   seqVars, auxVars>>

\* lines 1346-1354: what Agent.run calls in the case its select takes
\* (faulty variant first: the reader is left in the stream after a writer error)
RunSelectCallsNoRemove(case) ==
    IF case = "error" THEN <<"log">> ELSE <<"removeReader", "writerStop">>
RunSelectCalls(case) ==
    IF case = "error" THEN <<"log", "removeReader">> ELSE <<"removeReader", "writerStop">>

\* lines 1346-1354: the select of Agent.run
RecRunSelect(case) ==
    /\ recPc = "select"
    /\ \/ case = "error" /\ recWriter = "failed"
       \/ case = "done" /\ recCtxDone
    /\ recLog' = recLog \o RunSelectCalls(case)
    /\ recWriter' = "stopped"
    /\ recPc' = "segment"
    /\ recLast' = [kind |-> "run", case |-> case]
    /\ UNCHANGED <<recFormat, recCodec, recSegment, recStarted, recLastPTS, recCtxDone,
                   recClosePc, progVars, srcVars, seqVars, auxVars>>

\* lines 1356-1358
RecRunSegment ==
    /\ recPc = "segment"
    /\ recPc' = "return"
    /\ IF recSegment = "nil"
       THEN UNCHANGED <<recSegment, recLog>>
       ELSE recSegment' = "closed" /\ recLog' = Append(recLog, "segmentClose")
    /\ recLast' = [kind |-> "run", case |-> "segment"]
    /\ UNCHANGED <<recFormat, recCodec, recStarted, recLastPTS, recWriter, recCtxDone,
                   recClosePc, progVars, srcVars, seqVars, auxVars>>

\* line 1342: the deferred close(r.done)
RecRunDone ==
    /\ recPc = "return"
    /\ recPc' = "done"
    /\ recLog' = Append(recLog, "done")
    /\ recLast' = [kind |-> "run", case |-> "return"]
    /\ UNCHANGED <<recFormat, recCodec, recSegment, recStarted, recLastPTS, recWriter,
                   recCtxDone, recClosePc, progVars, srcVars, seqVars, auxVars>>

\* line 1332: r.ctxCancel()
RecClose ==
    /\ recClosePc = "idle"
    /\ recCtxDone' = TRUE
    /\ recClosePc' = "waiting"
    /\ recLast' = [kind |-> "close"]
    /\ UNCHANGED <<recFormat, recCodec, recSegment, recStarted, recLastPTS, recWriter,
                   recPc, recLog, progVars, srcVars, seqVars, auxVars>>

\* line 1333: <-r.done
RecCloseReturn ==
    /\ recClosePc = "waiting"
    /\ recPc = "done"
    /\ recClosePc' = "returned"
    /\ recLast' = [kind |-> "closeReturn"]
    /\ UNCHANGED <<recFormat, recCodec, recSegment, recStarted, recLastPTS, recWriter,
                   recPc, recCtxDone, recLog, progVars, srcVars, seqVars, auxVars>>

AgentNext ==
    \/ \E u \in Units(recFormat.kind), outcome \in {"error", "buffered", "flushed"} :
          RecUnit(u, outcome)
    \/ \E case \in {"error", "done"} : RecRunSelect(case)
    \/ RecRunSegment
    \/ RecRunDone
    \/ RecClose
    \/ RecCloseReturn

AgentSpec == AgentInit /\ [][AgentNext]_vars

\* ------------------------------------------------- the external command
\* externalcmd.Cmd (src/internal/externalcmd/cmd.go): NewCmd starts run in a
\* goroutine; run executes the command through runOSSpecific, reports its
\* exits through onExit and, with restart, executes it again after
\* restartPause; Close closes the terminate channel.
\* cmd.log lists what run and Close did, in order: "exec", "exitNil",
\* "exitErr", "exitTerminated", "onExitErr", "onExitCode0", "timer", "close".

\* cmd.go 36-67: NewCmd
CmdInit ==
    /\ ProgIdle
    /\ SrcIdle
    /\ RecIdle
    /\ SeqIdle
    /\ lib = "-"
    /\ buf = "-"
    /\ metrics = "-"
    /\ \E restart \in BOOLEAN :
          cmd = [restart |-> restart, terminate |-> FALSE, closed |-> FALSE,
                 pc |-> "start", wg |-> 1, log |-> <<>>]

\* cmd.go 78: run calls runOSSpecific (not in cmd.go), which starts the command
CmdStart ==
    /\ cmd.pc = "start"
    /\ cmd' = [cmd EXCEPT !.pc = "running", !.log = Append(@, "exec")]
    /\ UNCHANGED <<progVars, srcVars, recVars, seqVars, lib, buf, metrics>>

\* cmd.go 78-94: runOSSpecific returns nil or an error when the command has
\* exited, errTerminated when it was stopped because terminate is closed;
\* run returns (the deferred wg.Done runs) or reports the exit and pauses
\* (faulty variant first: a clean exit is reported to nobody)
CmdExitCleanUnreported(err) ==
    /\ cmd.pc = "running"
    /\ err = "Terminated" => cmd.terminate
    /\ cmd' = IF err = "Terminated" \/ ~cmd.restart
              THEN [cmd EXCEPT !.pc = "returned", !.wg = @ - 1,
                               !.log = @ \o (IF err = "Err" THEN <<"exitErr", "onExitErr">>
                                             ELSE IF err = "Nil" THEN <<"exitNil">>
                                             ELSE <<"exitTerminated">>)]
              ELSE [cmd EXCEPT !.pc = "pause",
                               !.log = @ \o (IF err = "Err" THEN <<"exitErr", "onExitErr">>
                                             ELSE <<"exitNil">>)]
    /\ UNCHANGED <<progVars, srcVars, recVars, seqVars, lib, buf, metrics>>
\* (faulty variant: the termination is reported like an exit of the command)
CmdExitTerminationReported(err) ==
    /\ cmd.pc = "running"
    /\ err = "Terminated" => cmd.terminate
    /\ LET entries == IF err = "Err" THEN <<"exitErr", "onExitErr">>
                      ELSE IF err = "Terminated" THEN <<"exitTerminated", "onExitErr">>
                      ELSE IF cmd.restart THEN <<"exitNil", "onExitCode0">>
                      ELSE <<"exitNil">>
       IN  cmd' = IF ~cmd.restart
                  THEN [cmd EXCEPT !.pc = "returned", !.wg = @ - 1, !.log = @ \o entries]
                  ELSE [cmd EXCEPT !.pc = "pause", !.log = @ \o entries]
    /\ UNCHANGED <<progVars, srcVars, recVars, seqVars, lib, buf, metrics>>
CmdExit(err) ==
    /\ cmd.pc = "running"
    /\ err = "Terminated" => cmd.terminate
    /\ cmd' = IF err = "Terminated"
              THEN [cmd EXCEPT !.pc = "returned", !.wg = @ - 1,
                               !.log = Append(@, "exitTerminated")]
              ELSE IF ~cmd.restart
              THEN [cmd EXCEPT !.pc = "returned", !.wg = @ - 1,
                               !.log = @ \o (IF err = "Err" THEN <<"exitErr", "onExitErr">>
                                             ELSE <<"exitNil">>)]
              ELSE [cmd EXCEPT !.pc = "pause",
                               !.log = @ \o (IF err = "Err" THEN <<"exitErr", "onExitErr">>
                                             ELSE <<"exitNil", "onExitCode0">>)]
    /\ UNCHANGED <<progVars, srcVars, recVars, seqVars, lib, buf, metrics>>

\* cmd.go 96-100: the select of the pause takes the timer, and the loop goes
\* on, or terminate, and run returns
\* (faulty variant first: the select of the pause has no terminate case)
CmdPauseTimerOnly(case) ==
    /\ cmd.pc = "pause"
    /\ case = "timer"
    /\ Count(cmd.log, "exec") < MaxExecs
    /\ cmd' = [cmd EXCEPT !.pc = "start", !.log = Append(@, "timer")]
    /\ UNCHANGED <<progVars, srcVars, recVars, seqVars, lib, buf, metrics>>
CmdPause(case) ==
    /\ cmd.pc = "pause"
    /\ IF case = "timer"
       THEN /\ Count(cmd.log, "exec") < MaxExecs
            /\ cmd' = [cmd EXCEPT !.pc = "start", !.log = Append(@, "timer")]
       ELSE /\ cmd.terminate
            /\ cmd' = [cmd EXCEPT !.pc = "returned", !.wg = @ - 1]
    /\ UNCHANGED <<progVars, srcVars, recVars, seqVars, lib, buf, metrics>>

\* cmd.go 70-72: Close
\* (faulty variant first: Close waits for run to return)
CmdCloseWaiting ==
    /\ ~cmd.closed
    /\ cmd.pc = "returned"
    /\ cmd' = [cmd EXCEPT !.terminate = TRUE, !.closed = TRUE, !.log = Append(@, "close")]
    /\ UNCHANGED <<progVars, srcVars, recVars, seqVars, lib, buf, metrics>>
CmdClose ==
    /\ ~cmd.closed
    /\ cmd' = [cmd EXCEPT !.terminate = TRUE, !.closed = TRUE, !.log = Append(@, "close")]
    /\ UNCHANGED <<progVars, srcVars, recVars, seqVars, lib, buf, metrics>>

CmdNext ==
    \/ CmdStart
    \/ \E err \in {"Nil", "Err", "Terminated"} : CmdExit(err)
    \/ \E case \in {"timer", "terminate"} : CmdPause(case)
    \/ CmdClose

CmdSpec == CmdInit /\ [][CmdNext]_vars

\* the goroutine of run goes on whenever it can; runOSSpecific returns
\* errTerminated once terminate is closed, and a select whose terminate
\* case stays ready takes it in the end
CmdLiveSpec ==
    /\ CmdSpec
    /\ WF_vars(CmdStart)
    /\ SF_vars(CmdExit("Terminated"))
    /\ SF_vars(CmdPause("terminate"))

\* ---------------------------------------------------- library functions
\* Functions of the repository that keep no state between calls. LibInit
\* draws the function and its arguments, LibCall applies it and stores what
\* it returned in lib.out.

\* conf.Credential (credential_test.go 40-166; spec 4.5 and 6). A credential
\* value is a sequence of tokens: "sha256:" and "argon2:" stand for these
\* prefixes, "a" for a letter or digit, "/" for a slash, " " for a character
\* that neither a plain value nor base64 holds, "#" for the base64 text of a
\* digest, and "$argon2i$", "$argon2id$", "$argon2d$" for the head of an
\* encoded argon2 hash (variant, version, parameters and salt). The digest
\* of an input is "#" followed by the input: distinct inputs have distinct
\* digests.

\* credential_test.go 40-78: IsEmpty, IsSha256, IsArgon2, IsHashed
\* (faulty variant first: an argon2 value is not reported as hashed)
CredentialArgon2Unhashed(value) ==
    LET sha == Len(value) >= 1 /\ value[1] = "sha256:"
    IN  [IsEmpty |-> value = <<>>, IsSha256 |-> sha,
         IsArgon2 |-> Len(value) >= 1 /\ value[1] = "argon2:", IsHashed |-> sha]
Credential(value) ==
    LET sha == Len(value) >= 1 /\ value[1] = "sha256:"
        argon == Len(value) >= 1 /\ value[1] = "argon2:"
    IN  [IsEmpty |-> value = <<>>, IsSha256 |-> sha, IsArgon2 |-> argon,
         IsHashed |-> sha \/ argon]

\* credential_test.go 80-103: Check; the hash of the input is compared with
\* the stored hash, a plain value with the input itself
\* (faulty variant first: only the length of a plain value is compared)
CheckLengthOnly(value, input) ==
    IF Credential(value).IsSha256 THEN value = <<"sha256:", "#">> \o input
    ELSE IF Credential(value).IsArgon2
    THEN /\ Len(value) >= 3
         /\ value[2] \in {"$argon2i$", "$argon2id$"}
         /\ SubSeq(value, 3, Len(value)) = <<"#">> \o input
    ELSE Len(value) = Len(input)
Check(value, input) ==
    IF Credential(value).IsSha256 THEN value = <<"sha256:", "#">> \o input
    ELSE IF Credential(value).IsArgon2
    THEN /\ Len(value) >= 3
         /\ value[2] \in {"$argon2i$", "$argon2id$"}
         /\ SubSeq(value, 3, Len(value)) = <<"#">> \o input
    ELSE value = input

\* credential_test.go 105-166: validateConfig
\* (faulty variant first: the variant of an argon2 hash is not looked at)
validateConfigAnyVariant(value) ==
    LET Only(from, chars) == \A i \in from..Len(value) : value[i] \in chars
    IN  IF Credential(value).IsEmpty THEN "nil"
        ELSE IF Credential(value).IsSha256
        THEN IF Only(2, {"a", "/", "#"}) THEN "nil" ELSE "error"
        ELSE IF Credential(value).IsArgon2
        THEN IF /\ Len(value) >= 3
                /\ value[2] \in {"$argon2i$", "$argon2id$", "$argon2d$"}
                /\ Only(3, {"a", "/", "#"})
             THEN "nil" ELSE "error"
        ELSE IF Only(1, {"a"}) THEN "nil" ELSE "error"
validateConfig(value) ==
    LET Only(from, chars) == \A i \in from..Len(value) : value[i] \in chars
    IN  IF Credential(value).IsEmpty THEN "nil"
        ELSE IF Credential(value).IsSha256
        THEN IF Only(2, {"a", "/", "#"}) THEN "nil" ELSE "error"
        ELSE IF Credential(value).IsArgon2
        THEN IF /\ Len(value) >= 3
                /\ value[2] \in {"$argon2i$", "$argon2id$"}
                /\ Only(3, {"a", "/", "#"})
             THEN "nil" ELSE "error"
        ELSE IF Only(1, {"a"}) THEN "nil" ELSE "error"

\* mpegts.FromStream (from_stream_test.go 16-71): one MPEG-TS track is set
\* up for each format MPEG-TS supports; without any the call fails, else a
\* warning is logged for each format left out. A stream is the sequence of
\* the codecs of its medias.
\* (faulty variants first: tracks are counted from 0; the warnings are
\* logged before the tracks are counted)
FromStreamZeroBased(desc) ==
    LET supported == {i \in 1..Len(desc) : desc[i] \in {"H265", "H264"}}
    IN  IF supported = {} THEN [err |-> "errNoSupportedCodecs", log |-> <<>>]
        ELSE [err |-> "nil",
              log |-> SelectSeq([i \in 1..Len(desc) |-> [track |-> i - 1, codec |-> desc[i]]],
                                LAMBDA e : e.codec \notin {"H265", "H264"})]
FromStreamLogsFirst(desc) ==
    LET supported == {i \in 1..Len(desc) : desc[i] \in {"H265", "H264"}}
    IN  [err |-> IF supported = {} THEN "errNoSupportedCodecs" ELSE "nil",
         log |-> SelectSeq([i \in 1..Len(desc) |-> [track |-> i, codec |-> desc[i]]],
                           LAMBDA e : e.codec \notin {"H265", "H264"})]
FromStream(desc) ==
    LET supported == {i \in 1..Len(desc) : desc[i] \in {"H265", "H264"}}
    IN  IF supported = {} THEN [err |-> "errNoSupportedCodecs", log |-> <<>>]
        ELSE [err |-> "nil",
              log |-> SelectSeq([i \in 1..Len(desc) |-> [track |-> i, codec |-> desc[i]]],
                                LAMBDA e : e.codec \notin {"H265", "H264"})]

\* The SRT server as TestSRTServer drives it (srt_server_test.go 14-129): a
\* publisher dials "publish:mypath" and writes a unit, a reader dials
\* "read:mypath" and reads. A connection is tested against the passphrase
\* configured for its action: with one configured it is accepted when it
\* presents that passphrase; with none configured it is accepted when it
\* presents none (the test does not tell what happens when it presents one:
\* both outcomes are kept). The result is the set of the outcomes possible.
\* (faulty variant first: one passphrase, the publish one, guards both actions)
TestSRTServerOnePassphrase(pathConf, publisher, reader) ==
    LET Accept(configured, presented) ==
            IF configured # "" THEN {presented = configured}
            ELSE IF presented = "" THEN {TRUE} ELSE BOOLEAN
    IN  {[publisher |-> p, reader |-> p /\ r,
          received |-> IF p /\ r THEN <<"unit">> ELSE <<>>] :
            p \in Accept(pathConf.srtPublishPassphrase, publisher),
            r \in Accept(pathConf.srtPublishPassphrase, reader)}
TestSRTServer(pathConf, publisher, reader) ==
    LET Accept(configured, presented) ==
            IF configured # "" THEN {presented = configured}
            ELSE IF presented = "" THEN {TRUE} ELSE BOOLEAN
    IN  {[publisher |-> p, reader |-> p /\ r,
          received |-> IF p /\ r THEN <<"unit">> ELSE <<>>] :
            p \in Accept(pathConf.srtPublishPassphrase, publisher),
            r \in Accept(pathConf.srtReadPassphrase, reader)}

\* message.Writer.Write (src/internal/rtmp/message/writer.go, lines 25-46) on
\* a writer w with its chunk size and window acknowledge size: the message
\* is marshalled, written by the raw writer with the chunk size it has then,
\* and a SetChunkSize or SetWindowAckSize message then sets the value
\* (faulty variant first: the value is set before the message is written)
WriteSetsFirst(w, msg) ==
    LET w1 == IF msg.type = "SetChunkSize" THEN [w EXCEPT !.chunkSize = msg.value]
              ELSE IF msg.type = "SetWindowAckSize" THEN [w EXCEPT !.windowAckSize = msg.value]
              ELSE w
    IN  IF ~msg.marshalOk THEN [err |-> "marshal", w |-> w, sentWith |-> 0]
        ELSE IF ~msg.writeOk THEN [err |-> "write", w |-> w1, sentWith |-> 0]
        ELSE [err |-> "nil", w |-> w1, sentWith |-> w1.chunkSize]
Write(w, msg) ==
    IF ~msg.marshalOk THEN [err |-> "marshal", w |-> w, sentWith |-> 0]
    ELSE IF ~msg.writeOk THEN [err |-> "write", w |-> w, sentWith |-> 0]
    ELSE [err |-> "nil",
          w |-> IF msg.type = "SetChunkSize" THEN [w EXCEPT !.chunkSize = msg.value]
                ELSE IF msg.type = "SetWindowAckSize"
                     THEN [w EXCEPT !.windowAckSize = msg.value]
                ELSE w,
          sentWith |-> w.chunkSize]

\* jpegExtractSize (src/unnamed/part_000, lines 518-571) on a sequence of
\* bytes: the set of its outcomes, an error, "size" (width and height) or
\* "panic", the run-time panic of an index or a slice out of range.
\* sof.Unmarshal is a library function: it returns the size or an error.
\* lines 526-570: the loop over the segments
RECURSIVE jpegExtractSizeLoop(_)
jpegExtractSizeLoop(image) ==
    IF Len(image) < 2 THEN {"notEnoughBits"}
    ELSE LET h0 == image[1]
             h1 == image[2]
             rest == SubSeq(image, 3, Len(image))
             mlen == rest[1] * 256 + rest[2]
         IN  IF h0 # 255 THEN {"invalidImage"}
             ELSE IF h1 \in {224, 225, 226, 196, 254, 219, 221}
             THEN IF Len(rest) < 2 THEN {"panic"}
                  ELSE IF Len(rest) < mlen THEN {"notEnoughBits"}
                  ELSE jpegExtractSizeLoop(SubSeq(rest, mlen + 1, Len(rest)))
             ELSE IF h1 = 192
             THEN IF Len(rest) < 2 THEN {"panic"}
                  ELSE IF Len(rest) < mlen THEN {"notEnoughBits"}
                  ELSE IF mlen < 2 THEN {"panic"}
                  ELSE {"size", "unmarshalError"}
             ELSE IF h1 = 218 THEN {"sofNotFound"}
             ELSE {"unknownMarker"}
\* lines 518-524
jpegExtractSize(image) ==
    IF Len(image) < 2 \/ image[1] # 255 \/ image[2] # 216 THEN {"invalidHeader"}
    ELSE jpegExtractSizeLoop(SubSeq(image, 3, Len(image)))

\* the calls made: the function and its arguments
LibInit ==
    /\ ProgIdle
    /\ SrcIdle
    /\ RecIdle
    /\ SeqIdle
    /\ cmd = "-"
    /\ buf = "-"
    /\ metrics = "-"
    /\ LET SeqsUpTo(n, S) == UNION {[1..k -> S] : k \in 0..n}
           values == SeqsUpTo(MaxCredLen, {"sha256:", "argon2:", "a", "/", " ", "#",
                                           "$argon2i$", "$argon2id$", "$argon2d$"})
           inputs == SeqsUpTo(MaxCredLen - 2, {"a", "/"})
       IN  \/ \E fn \in {"Credential", "Check", "validateConfig"}, value \in values,
                 input \in inputs :
                 /\ fn # "Check" => input = <<>>
                 /\ lib = [fn |-> fn, arg |-> <<value, input>>, done |-> FALSE,
                           out |-> "-"]
           \/ \E desc \in SeqsUpTo(MaxFormats, {"H265", "H264", "VP8"}) :
                 lib = [fn |-> "FromStream", arg |-> <<desc>>, done |-> FALSE, out |-> "-"]
           \/ \E pp, rp \in {"", "123456789abcde"},
                 publisher, reader \in {"", "123456789abcde", "other"} :
                 lib = [fn |-> "TestSRTServer",
                        arg |-> <<[srtPublishPassphrase |-> pp, srtReadPassphrase |-> rp],
                                  publisher, reader>>,
                        done |-> FALSE, out |-> "-"]
           \/ \E image \in SeqsUpTo(2, {255, 216, 0})
                             \cup {<<255, 216>> \o body :
                                      body \in SeqsUpTo(MaxBodyLen,
                                                        {255, 216, 224, 192, 218, 0, 3})} :
                 lib = [fn |-> "jpegExtractSize", arg |-> <<image>>, done |-> FALSE,
                        out |-> "-"]
           \/ \E cs, was \in {128, 4096},
                 type \in {"SetChunkSize", "SetWindowAckSize", "Acknowledge", "Video"},
                 value \in {128, 4096, 65536}, marshalOk, writeOk \in BOOLEAN :
                 lib = [fn |-> "Write",
                        arg |-> <<[chunkSize |-> cs, windowAckSize |-> was],
                                  [type |-> type, value |-> value, marshalOk |-> marshalOk,
                                   writeOk |-> writeOk]>>,
                        done |-> FALSE, out |-> "-"]

LibCall ==
    /\ ~lib.done
    /\ \E out \in CASE lib.fn = "Credential" -> {Credential(lib.arg[1])}
                   [] lib.fn = "Check" -> {Check(lib.arg[1], lib.arg[2])}
                   [] lib.fn = "validateConfig" -> {validateConfig(lib.arg[1])}
                   [] lib.fn = "FromStream" -> {FromStream(lib.arg[1])}
                   [] lib.fn = "TestSRTServer" ->
                          TestSRTServer(lib.arg[1], lib.arg[2], lib.arg[3])
                   [] lib.fn = "Write" -> {Write(lib.arg[1], lib.arg[2])}
                   [] lib.fn = "jpegExtractSize" -> jpegExtractSize(lib.arg[1]) :
          lib' = [lib EXCEPT !.done = TRUE, !.out = out]
    /\ UNCHANGED <<progVars, srcVars, recVars, seqVars, cmd, buf, metrics>>

LibSpec == LibInit /\ [][LibCall]_vars

\* ------------------------------------------------------ the unit buffer
\* The Buffer of spec 4.1: a ring of N slots (N a power of two), the writer
\* sequence W and one reader cursor with its next expected sequence C. A
\* unit is named by the sequence it was pushed with. buf.seen lists what
\* the reader observed, in order: "overflow" or a unit; buf.woke is the
\* writer sequence at the reader's first pull (-1 before it).

BufInit ==
    /\ ProgIdle
    /\ SrcIdle
    /\ RecIdle
    /\ SeqIdle
    /\ cmd = "-"
    /\ lib = "-"
    /\ metrics = "-"
    /\ \E n \in {1, 2, 4} :
          buf = [n |-> n, slots |-> [i \in 0..(n - 1) |-> -1], w |-> 0, c |-> 0,
                 seen |-> <<>>, woke |-> -1]

\* push: write into slot W mod N, increment W; the writer never waits
BufPush ==
    /\ buf.w < MaxPushes
    /\ buf' = [buf EXCEPT !.slots[buf.w % buf.n] = buf.w, !.w = @ + 1]
    /\ UNCHANGED <<progVars, srcVars, recVars, seqVars, cmd, lib, metrics>>

\* pull: if C = W wait; else if W - C > N report overflow and fast-forward
\* C to W - N; then read slot C mod N and increment C
\* (faulty variant first: the overflow is reported but the cursor stays)
BufPullNoFastForward ==
    /\ buf.c # buf.w
    /\ LET over == buf.w - buf.c > buf.n
       IN  buf' = [buf EXCEPT !.c = @ + 1,
                              !.seen = @ \o (IF over THEN <<"overflow">> ELSE <<>>)
                                         \o <<buf.slots[buf.c % buf.n]>>,
                              !.woke = IF @ = -1 THEN buf.w ELSE @]
    /\ UNCHANGED <<progVars, srcVars, recVars, seqVars, cmd, lib, metrics>>
BufPull ==
    /\ buf.c # buf.w
    /\ LET over == buf.w - buf.c > buf.n
           c == IF over THEN buf.w - buf.n ELSE buf.c
       IN  buf' = [buf EXCEPT !.c = c + 1,
                              !.seen = @ \o (IF over THEN <<"overflow">> ELSE <<>>)
                                         \o <<buf.slots[c % buf.n]>>,
                              !.woke = IF @ = -1 THEN buf.w ELSE @]
    /\ UNCHANGED <<progVars, srcVars, recVars, seqVars, cmd, lib, metrics>>

BufSpec == BufInit /\ [][BufPush \/ BufPull]_vars

\* ------------------------------------------------------ the metrics server
\* metrics (src/internal/core/metrics.go): newMetrics starts the HTTP server,
\* every component registers itself later through its setter, and onMetrics
\* answers a request from the components it finds. metrics.set holds the
\* fields that have been assigned, metrics.writing the field whose setter
\* holds the mutex, metrics.pc the position of onMetrics (0: no request, i:
\* at the i-th component, then the response), metrics.lines the components
\* that contributed lines, metrics.answer what the last request got.

\* metrics.go 31-36, in the order in which onMetrics reads them
Components ==
    <<"pathManager", "hlsServer", "rtspServer", "rtspsServer", "rtmpServer", "webRTCServer">>

\* metrics.go 39-67: newMetrics; the server is listening, no setter was called
MetricsInit ==
    /\ ProgIdle
    /\ SrcIdle
    /\ RecIdle
    /\ SeqIdle
    /\ cmd = "-"
    /\ lib = "-"
    /\ buf = "-"
    /\ metrics = [set |-> {}, writing |-> "-", pc |-> 0, lines |-> {}, answer |-> "-",
                  raced |-> FALSE, reqs |-> 0]

\* metrics.go 189-229: a setter takes the mutex
SetLock(c) ==
    /\ c \notin metrics.set
    /\ metrics.writing = "-"
    /\ metrics' = [metrics EXCEPT !.writing = c]
    /\ UNCHANGED <<progVars, srcVars, recVars, seqVars, cmd, lib, buf>>

\* metrics.go 189-229: the setter assigns the field and releases the mutex
SetStore(c) ==
    /\ metrics.writing = c
    /\ metrics' = [metrics EXCEPT !.set = @ \cup {c}, !.writing = "-"]
    /\ UNCHANGED <<progVars, srcVars, recVars, seqVars, cmd, lib, buf>>

\* metrics.go 79-80: a request arrives
onMetricsStart ==
    /\ metrics.pc = 0
    /\ metrics.reqs < MaxRequests
    /\ metrics' = [metrics EXCEPT !.pc = 1, !.lines = {}, !.answer = "-", !.raced = FALSE,
                                  !.reqs = @ + 1]
    /\ UNCHANGED <<progVars, srcVars, recVars, seqVars, cmd, lib, buf>>

\* what onMetrics, which does not take the mutex, can read in field c: its
\* value, or, while the setter is assigning it, the old value, the new one
\* or a mix of the two words of the interface
Seen(c) ==
    IF metrics.writing = c THEN {"nil", "set", "torn"}
    ELSE IF c \in metrics.set THEN {"set"}
    ELSE {"nil"}

\* metrics.go 82-183: the next component; the path manager's list is called
\* without a test (line 82), the others after interfaceIsEmpty; a list that
\* returns an error adds nothing
onMetricsComponent(seen, listOk) ==
    /\ metrics.pc \in 1..Len(Components)
    /\ LET c == Components[metrics.pc]
       IN  /\ seen \in Seen(c)
           /\ metrics' =
                 IF seen = "torn" \/ (seen = "nil" /\ c = "pathManager")
                 THEN [metrics EXCEPT !.pc = 0, !.answer = "panic",
                                      !.raced = @ \/ metrics.writing = c]
                 ELSE [metrics EXCEPT !.pc = @ + 1,
                                      !.lines = IF seen = "set" /\ listOk THEN @ \cup {c} ELSE @,
                                      !.raced = @ \/ metrics.writing = c]
    /\ UNCHANGED <<progVars, srcVars, recVars, seqVars, cmd, lib, buf>>

\* metrics.go 185-186
onMetricsRespond ==
    /\ metrics.pc = Len(Components) + 1
    /\ metrics' = [metrics EXCEPT !.pc = 0, !.answer = "200"]
    /\ UNCHANGED <<progVars, srcVars, recVars, seqVars, cmd, lib, buf>>

MetricsSpec ==
    /\ MetricsInit
    /\ [][\/ \E c \in {Components[i] : i \in 1..Len(Components)} : SetLock(c)
          \/ \E c \in {Components[i] : i \in 1..Len(Components)} : SetStore(c)
          \/ onMetricsStart
          \/ \E seen \in {"nil", "set", "torn"}, listOk \in BOOLEAN :
                onMetricsComponent(seen, listOk)
          \/ onMetricsRespond]_vars

\* ================================================================ claims

progState == <<paths, clients, udpClientsByAddr, publisherCount, readerCount>>

\* the clients bound to a path as its publisher
BoundPublishers(n) ==
    {c \in Clients : clients[c].path = n /\ clients[c].state \in {"preRecord", "record"}}

\* C1: in every reachable state of the control loop each path has at most one
\* bound publisher, and that client is the publisher the path records
C1_OnePublisherPerPath ==
    \A n \in PathNames :
        /\ Cardinality(BoundPublishers(n)) <= 1
        /\ \A c \in BoundPublishers(n) : n \in DOMAIN paths /\ paths[n].publisher = c

\* a second client has just announced on a path whose publisher is recording
C1_Witness ==
    \E n \in DOMAIN paths, c \in Clients :
        /\ paths[n].publisher = c
        /\ clients[c].state = "record"
        /\ last.kind = "announce" /\ last.phase = "loop"
        /\ last.path = n /\ last.client # c

\* C2: an announce on a path that already has a publisher is answered with
\* 'already publishing' and changes neither the paths (publisher, session
\* description, registry) nor any client nor the counters
C2_AnnounceOnBusyPathChangesNothing ==
    [][(/\ last'.kind = "announce" /\ last'.phase = "loop"
        /\ last'.path \in DOMAIN paths
        /\ paths[last'.path].publisher # NoPublisher)
       => (last'.res = "alreadyPublishing" /\ UNCHANGED progState)]_vars

\* an announce was refused while the incumbent had announced but not yet recorded
C2_Witness ==
    /\ last.kind = "announce" /\ last.res = "alreadyPublishing"
    /\ \E c \in Clients :
          /\ paths[last.path].publisher = c
          /\ c # last.client
          /\ clients[c].state = "preRecord"
          /\ clients[last.client].state = "initial"

\* C3: when the path's configuration allows publisher override and a publisher
\* A is bound, an announce by B detaches A and makes B the publisher in one step
C3_OverrideReplacesPublisher ==
    [][(/\ last'.kind = "announce" /\ last'.phase = "loop"
        /\ last'.path \in DOMAIN paths
        /\ paths[last'.path].confp.overridePublisher
        /\ paths[last'.path].publisher \in Clients)
       => (/\ last'.res = "ok"
           /\ paths'[last'.path].publisher = last'.client
           /\ clients'[paths[last'.path].publisher].path # last'.path
           /\ \A c \in Clients \ {last'.client} : clients'[c].path # last'.path)]_vars

\* C4: a setup-play succeeds exactly when the path exists, its publisher is
\* ready and the track index is below the number of media; otherwise it is
\* answered with an error and nothing changes. A path becomes ready only by a
\* record or source-ready event, so a path whose publisher has announced but
\* not recorded is never ready
C4_SetupPlayOnlyWhenReady ==
    [][/\ (last'.kind = "setupPlay" /\ last'.phase = "loop") =>
            IF /\ last'.path \in DOMAIN paths
               /\ paths[last'.path].publisherReady
               /\ last'.track < paths[last'.path].publisherSdp
            THEN /\ last'.res = "ok"
                 /\ clients'[last'.client].path = last'.path
                 /\ clients'[last'.client].state = "prePlay"
            ELSE /\ last'.res \in {"noOnePublishing", "noTrack"}
                 /\ UNCHANGED progState
       /\ \A n \in DOMAIN paths' :
            (paths'[n].publisherReady /\ ~(n \in DOMAIN paths /\ paths[n].publisherReady))
               => (last'.kind \in {"record", "sourceReady"} /\ last'.path = n)
       /\ \A n \in DOMAIN paths', c \in Clients :
            (paths'[n].publisher = c /\ clients'[c].state = "preRecord")
               => ~paths'[n].publisherReady]_vars

\* a reader was refused on a path whose publisher has announced but not recorded
C4_Witness ==
    /\ last.kind = "setupPlay" /\ last.res = "noOnePublishing" /\ last.phase = "loop"
    /\ last.path \in DOMAIN paths
    /\ \E c \in Clients :
          paths[last.path].publisher = c /\ clients[c].state = "preRecord"

C6_SetNotReadyExactlyOnce ==
    /\ Count(events, "SetNotReady") <= 1
    /\ Count(events, "SetReadyOk") = 0 => Count(events, "SetNotReady") = 0
    /\ \A i, j \in 1..Len(events) :
          (events[i] = "SetNotReady" /\ events[j] = "WriteUnit") => j < i
    /\ (Count(events, "SetReadyOk") = 1 /\ (outerPc = "returned" \/ readerPc = "finished"))
          => Count(events, "SetNotReady") = 1

\* a run that wrote units was ended by the context and has returned
C6_Witness ==
    /\ outerPc = "returned"
    /\ runResult \in {"nil", "terminated"}
    /\ Count(events, "WriteUnit") >= 1
    /\ events[Len(events)] = "SetNotReady"

\* C7 as stated: once shutdown has been signalled (terminate is closed) every
\* announce and setup-play request received is answered 'terminated' and
\* changes nothing
C7_TerminatedOnceSignalled ==
    [][(terminate /\ last'.kind \in {"announce", "setupPlay"})
       => (last'.res = "terminated" /\ UNCHANGED progState)]_vars

\* C7 as amended: once the control loop has taken the terminate case and left
\* its main loop, every announce and setup-play request received is answered
\* 'terminated' and changes nothing
C7_TerminatedOnceLoopLeft ==
    [][(runPc \notin {"init", "loop"} /\ last'.kind \in {"announce", "setupPlay"})
       => (last'.res = "terminated" /\ UNCHANGED progState)]_vars

\* a setup-play of a client that is still registered was answered 'terminated'
C7_Witness ==
    /\ last.kind = "setupPlay" /\ last.res = "terminated" /\ last.phase = "drain"
    /\ clients[last.client].state = "prePlay"

\* C8: a describe request received while the program is shutting down is
\* answered with a failure, never dropped without an answer
C8_DescribeAnsweredDuringShutdown ==
    (last.kind = "describe" /\ last.phase = "drain") => last.res # "none"

\* C9: the draining goroutine never stays blocked on the reply to a zero-valued
\* request received from a closed channel, so none is left after close()
C9_DrainGoroutineEnds == drain # "blocked"

AllPathsClosed == \A n \in DOMAIN paths : paths[n].closed
NoClientLeft == \A c \in Clients : clients[c].state = "none"

\* C10: close() returns only after the shutdown sequence has completed in
\* order: onClose on every path, then the servers closed, then every client
\* closed and its done received, then the request channels closed, then done
C10_ShutdownInOrder ==
    /\ serversClosed => AllPathsClosed
    /\ (\E c \in Clients : clients[c].state = "closing") => serversClosed
    /\ runPc \in {"closeChans", "exited"} => (serversClosed /\ NoClientLeft)
    /\ chansClosed > 0 => runPc \in {"closeChans", "exited"}
    /\ done => chansClosed = Len(Chans)
    /\ closePc = "returned" =>
          (done /\ chansClosed = Len(Chans) /\ NoClientLeft /\ serversClosed /\ AllPathsClosed)

\* close() has returned after a shutdown that had paths to close
C10_Witness ==
    /\ closePc = "returned"
    /\ DOMAIN paths = PathNames
    /\ AllPathsClosed

\* C11: once program.close() has been called it returns in the end, whatever
\* requests, frames and client events are pending (checked under LiveSpec,
\* where every closed client signals done).
C11_ShutdownCompletes == (closePc = "waiting") ~> (closePc = "returned")

\* C12: a reader that does not receive the frame sent to it does not block the
\* control loop: while the frame is pending, the loop can still take an event
\* of its select or serve the next client.
C12_StalledReaderNeverBlocksLoop ==
    \A c \in Clients :
        LoopBlockedOn(c) => ENABLED (LoopEvent \/ RunTerminate \/ ForwardUdp)

StrictlyIncreasing(seq) == \A i, j \in 1..Len(seq) : i < j => seq[i] < seq[j]

C15_ConfiguredPathsAtStartup ==
    /\ [](\A n \in DOMAIN conf \ {"all"} :
             /\ n \in DOMAIN paths
             /\ paths[n].permanent
             /\ runPc # "init" => paths[n].inited)
    /\ [](runPc = "init" => /\ last.kind = "newProgram"
                            /\ DOMAIN paths = DOMAIN conf \ {"all"})
    /\ [][(\E n \in DOMAIN paths' : n \notin DOMAIN paths)
          => last'.kind \in {"describe", "announce"} /\ last'.phase = "loop"]_vars
    /\ [][(\E n \in DOMAIN paths \cap DOMAIN paths' : paths'[n].inited # paths[n].inited)
          => runPc = "init" /\ last'.kind = "onInit"]_vars

\* the loop is running, the configured paths are there, one more was added
C15_Witness ==
    /\ runPc = "loop"
    /\ \E n \in DOMAIN paths : n \notin DOMAIN conf /\ ~paths[n].permanent
    /\ \E n \in DOMAIN conf \ {"all"} : paths[n].inited

\* C16: a unit the callback fails on does not stop the recorder: the writer
\* keeps running and Agent.run stays in its select, ready for later units.
C16_AgentSurvivesUnitError ==
    [][(recLast'.kind = "unit" /\ recLast'.res = "unitError")
       => (recWriter' = "running" /\ recPc' = "select")]_vars

C18_CloseAfterRemoveAndSegment ==
    /\ Count(recLog, "removeReader") = (IF recPc = "select" THEN 0 ELSE 1)
    /\ \A i, j \in 1..Len(recLog) :
          (recLog[i] \in {"segmentClose", "done"} /\ recLog[j] = "removeReader") => j < i
    /\ \A i, j \in 1..Len(recLog) :
          (recLog[i] = "done" /\ recLog[j] = "segmentClose") => j < i
    /\ recPc = "done" => /\ recSegment \in {"nil", "closed"}
                         /\ Count(recLog, "done") = 1
                         /\ recSegment = "closed" => Count(recLog, "segmentClose") = 1
    /\ recClosePc = "returned" => recPc = "done"
    /\ (recClosePc = "waiting" /\ recPc = "done") => ENABLED RecCloseReturn

\* Close was called after a writer error had ended run, and has returned
C18_Witness ==
    /\ recClosePc = "returned"
    /\ recLog = <<"log", "removeReader", "segmentClose", "done">>

\* C19: the track starts with the parameters the publisher signalled when it
\* signalled all of them and with the defaults otherwise, it exists in both
\* cases, and a parameter found in a unit replaces the one of the track.
C19_SignalledOrDefaultParameters ==
    /\ [](recFormat.kind \in {"h264", "h265", "mpeg4video"}
          => /\ DOMAIN recCodec = ParamNames(recFormat.kind)
             /\ recLast.kind = "newAgent"
                => \/ /\ \A q \in DOMAIN recCodec : recFormat.params[q] # "nil"
                      /\ recCodec = recFormat.params
                   \/ /\ \E q \in DOMAIN recCodec : recFormat.params[q] = "nil"
                      /\ \A q \in DOMAIN recCodec : recCodec[q] = "default")
    /\ [][(recLast'.kind = "unit" /\ recFormat.kind \in {"h264", "h265", "mpeg4video"})
          => \A q \in recLast'.unit.has : recCodec'[q] = recLast'.unit.val[q]]_vars

\* the publisher signalled the SPS only: the track started with both defaults
\* and has since taken the parameters of the stream
C19_Witness ==
    /\ recFormat = [kind |-> "h264", params |-> [sps |-> "A", pps |-> "nil"]]
    /\ recLast.kind = "unit"
    /\ recCodec = [sps |-> "B", pps |-> "B"]

\* C20: after a VP9 key frame every parameter of the track is the one of the
\* frame's header, output is rotated exactly when one of them changed, and a
\* frame that is not a key frame changes no parameter.
C20_Vp9ParametersFollowKeyFrame ==
    [][(recLast'.kind = "unit" /\ recFormat.kind = "vp9" /\ ~recLast'.unit.bad)
       => LET u == recLast'.unit
          IN  IF u.key
              THEN /\ \A q \in DOMAIN recCodec : recCodec'[q] = u.val[q]
                   /\ recLast'.closed = (recCodec' # recCodec /\ recSegment = "written")
              ELSE recCodec' = recCodec /\ ~recLast'.closed]_vars

\* C21: run of a static source returns only after its reader goroutine has
\* finished: when the context ends the run it has closed the connection and
\* received the reader's result (RTMP returns nil, UDP "terminated"),
\* otherwise it returns the reader's error; a reader that is sending its
\* result always finds run ready to receive it.
C21_RunReturnsAfterReader ==
    /\ outerPc = "returned" => readerPc \in {"notStarted", "finished"}
    /\ readerPc = "sending" => ENABLED (SrcReaderDone \/ SrcWaitReader)
    /\ (outerPc = "returned" /\ readerPc = "finished") =>
          \/ runResult = readerRes
          \/ /\ ctxDone
             /\ connClosed
             /\ runResult = IF srcKind = "rtmp" THEN "nil" ELSE "terminated"

\* the context ended a run whose reader had not reached SetReady yet
C21_Witness ==
    /\ outerPc = "returned"
    /\ readerPc = "finished"
    /\ ctxDone
    /\ readerRes \in {"errInitialize", "errTracks"}
    /\ runResult \in {"nil", "terminated"}

\* C22: Cmd.Close only closes terminate and returns: as long as it has not
\* been called it can be taken in every state of run (executing the
\* command, pausing before a restart, returned), and taking it leaves run
\* and the wait group where they are.
C22_CloseNeverBlocks ==
    /\ [](~cmd.closed => ENABLED CmdClose)
    /\ [][(cmd'.closed /\ ~cmd.closed)
           => cmd'.terminate /\ cmd'.pc = cmd.pc /\ cmd'.wg = cmd.wg]_vars

\* Close has returned while run is pausing before the third execution
C22_Witness ==
    /\ cmd.closed
    /\ cmd.pc = "pause"
    /\ cmd.wg = 1
    /\ Count(cmd.log, "exec") = 2
    /\ cmd.log[Len(cmd.log)] = "close"

\* C30 (as amended): in what run did, in order: with restart disabled the
\* command is executed once; every further execution happens with restart
\* enabled and directly after a pause that ended by its timer, which follows
\* the report of the previous exit; an exit with an error is reported by
\* onExit(err), a clean exit by onExit("command exited with code 0") with
\* restart enabled and by nothing with restart disabled, a termination by
\* nothing, and onExit is called for nothing else.
C30_RunLoop ==
    LET rl == SelectSeq(cmd.log, LAMBDA e : e # "close")
        n == Len(rl)
    IN  /\ ~cmd.restart => Count(rl, "exec") <= 1
        /\ (~cmd.restart /\ cmd.pc = "returned") => Count(rl, "exec") = 1
        /\ \A i \in 1..n :
              /\ (rl[i] = "exec" /\ i > 1) => cmd.restart /\ rl[i - 1] = "timer"
              /\ rl[i] = "timer" =>
                    i > 1 /\ rl[i - 1] \in {"onExitErr", "onExitCode0"}
              /\ rl[i] = "exitErr" => i < n /\ rl[i + 1] = "onExitErr"
              /\ rl[i] = "exitNil" =>
                    IF cmd.restart THEN i < n /\ rl[i + 1] = "onExitCode0"
                    ELSE i = n /\ cmd.pc = "returned"
              /\ rl[i] = "exitTerminated" => i = n /\ cmd.pc = "returned"
              /\ rl[i] = "onExitErr" => i > 1 /\ rl[i - 1] = "exitErr"
              /\ rl[i] = "onExitCode0" => i > 1 /\ rl[i - 1] = "exitNil" /\ cmd.restart

\* C30 (as stated): moreover the command is never executed again once
\* termination has been signalled.
C30_NoExecutionAfterClose ==
    /\ C30_RunLoop
    /\ \A i, j \in 1..Len(cmd.log) :
          (cmd.log[j] = "close" /\ cmd.log[i] = "exec" /\ i > 1) => i < j

\* the command exited cleanly, then with an error, and runs for the third time
C30_Witness ==
    /\ cmd.restart
    /\ cmd.pc = "running"
    /\ SelectSeq(cmd.log, LAMBDA e : e # "close") =
          <<"exec", "exitNil", "onExitCode0", "timer",
            "exec", "exitErr", "onExitErr", "timer", "exec">>

\* C23: for every credential value IsSha256 and IsArgon2 are never both
\* true, IsHashed is true exactly when one of them is, IsEmpty is true
\* exactly for the empty value, a value that begins with one of the two
\* prefixes is reported as that kind, and an empty or plain value is never
\* reported as hashed.
C23_CredentialKinds ==
    (lib.fn = "Credential" /\ lib.done) =>
        LET value == lib.arg[1]
            prefix == IF value = <<>> THEN "" ELSE value[1]
        IN  /\ ~(lib.out.IsSha256 /\ lib.out.IsArgon2)
            /\ lib.out.IsHashed <=> (lib.out.IsSha256 \/ lib.out.IsArgon2)
            /\ lib.out.IsEmpty <=> Len(value) = 0
            /\ lib.out.IsSha256 <=> prefix = "sha256:"
            /\ lib.out.IsArgon2 <=> prefix = "argon2:"
            /\ prefix \notin {"sha256:", "argon2:"} => ~lib.out.IsHashed

\* an argon2 value was found hashed and not sha256
C23_Witness ==
    /\ lib.fn = "Credential"
    /\ lib.done
    /\ lib.arg[1] = <<"argon2:", "$argon2id$", "#">>
    /\ lib.out.IsHashed
    /\ ~lib.out.IsSha256

\* C24: Check(input) is true exactly when the input is the secret of the
\* credential: the stored value itself for a plain credential, the input
\* whose digest is the stored one for a sha256 or an argon2 credential; no
\* credential accepts two inputs.
C24_CheckAcceptsTheSecret ==
    (lib.fn = "Check" /\ lib.done) =>
        LET value == lib.arg[1]
            input == lib.arg[2]
            prefix == IF value = <<>> THEN "" ELSE value[1]
            digest == <<"#">> \o input
        IN  /\ lib.out <=>
                   CASE prefix = "sha256:" -> Tail(value) = digest
                     [] prefix = "argon2:" ->
                            /\ Len(value) >= 3
                            /\ value[2] \in {"$argon2i$", "$argon2id$"}
                            /\ Tail(Tail(value)) = digest
                     [] OTHER -> value = input
            /\ lib.out =>
                   \A other \in UNION {[1..k -> {"a", "/"}] : k \in 0..(MaxCredLen - 2)} :
                       Check(value, other) => other = input

\* a sha256 credential accepted the input it is the hash of
C24_Witness ==
    /\ lib.fn = "Check"
    /\ lib.done
    /\ lib.arg = << <<"sha256:", "#", "a">>, <<"a">> >>
    /\ lib.out

\* C25: validateConfig accepts exactly the empty value, a plain value of
\* allowed characters, a sha256 value whose payload is base64 and an argon2
\* value that holds a well-formed argon2i or argon2id hash; every other
\* value (forbidden characters, invalid base64, a malformed argon2 string,
\* an argon2d hash) is rejected with an error.
C25_ValidateConfig ==
    (lib.fn = "validateConfig" /\ lib.done) =>
        LET value == lib.arg[1]
            n == Len(value)
            prefix == IF value = <<>> THEN "" ELSE value[1]
            Base64(from) == \A i \in from..n : value[i] \in {"a", "/", "#"}
            accepted ==
                \/ n = 0
                \/ prefix = "sha256:" /\ Base64(2)
                \/ prefix = "argon2:" /\ n >= 3
                       /\ value[2] \in {"$argon2i$", "$argon2id$"} /\ Base64(3)
                \/ prefix \notin {"sha256:", "argon2:"} /\ \A i \in 1..n : value[i] = "a"
        IN  /\ lib.out \in {"nil", "error"}
            /\ lib.out = "nil" <=> accepted
            /\ (n >= 2 /\ value[2] = "$argon2d$") => lib.out = "error"
            /\ (\E i \in 1..n : value[i] = " ") => lib.out = "error"

\* an argon2d hash was rejected
C25_Witness ==
    /\ lib.fn = "validateConfig"
    /\ lib.done
    /\ lib.arg[1] = <<"argon2:", "$argon2d$", "#">>
    /\ lib.out = "error"

\* C26: FromStream on a stream none of whose formats MPEG-TS supports
\* returns errNoSupportedCodecs and logs nothing.
C26_NoSupportedCodecs ==
    (lib.fn = "FromStream" /\ lib.done
        /\ \A i \in 1..Len(lib.arg[1]) : lib.arg[1][i] = "VP8")
    => lib.out = [err |-> "errNoSupportedCodecs", log |-> <<>>]

\* a stream of two VP8 formats was refused
C26_Witness ==
    /\ lib.fn = "FromStream"
    /\ lib.done
    /\ lib.arg[1] = <<"VP8", "VP8">>
    /\ lib.out.err = "errNoSupportedCodecs"

\* C27: FromStream on a stream with a supported format succeeds and logs
\* one warning for each unsupported format, which names its position in
\* the description, counted from 1, and its codec; the warnings come in
\* the order of the description and no supported format is named.
C27_SkipUnsupportedTracks ==
    (lib.fn = "FromStream" /\ lib.done
        /\ \E i \in 1..Len(lib.arg[1]) : lib.arg[1][i] # "VP8")
    => LET desc == lib.arg[1]
           log == lib.out.log
       IN  /\ lib.out.err = "nil"
           /\ \A i \in 1..Len(desc) :
                 Cardinality({k \in 1..Len(log) : log[k].track = i}) =
                     IF desc[i] = "VP8" THEN 1 ELSE 0
           /\ \A k \in 1..Len(log) :
                 /\ log[k].track \in 1..Len(desc)
                 /\ log[k].codec = desc[log[k].track]
                 /\ k > 1 => log[k - 1].track < log[k].track

\* the stream of the test: H265 then VP8, one warning for track 2
C27_Witness ==
    /\ lib.fn = "FromStream"
    /\ lib.done
    /\ lib.arg[1] = <<"H265", "VP8">>
    /\ lib.out = [err |-> "nil", log |-> << [track |-> 2, codec |-> "VP8"] >>]

\* C28: the SRT publish and read passphrases are independent. With only a
\* publish passphrase configured a reader that presents none attaches, with
\* only a read passphrase configured a publisher that presents none
\* attaches, and a party whose action has a passphrase configured is
\* accepted when it presents it; in the three configurations of the test
\* the reader then receives the published unit.
C28_SrtPassphrasesIndependent ==
    (lib.fn = "TestSRTServer" /\ lib.done) =>
        LET pathConf == lib.arg[1]
        IN  /\ (pathConf.srtPublishPassphrase = "" \/ pathConf.srtReadPassphrase = "")
                   /\ lib.arg[2] = pathConf.srtPublishPassphrase
                   /\ lib.arg[3] = pathConf.srtReadPassphrase
                => lib.out = [publisher |-> TRUE, reader |-> TRUE, received |-> <<"unit">>]
            /\ lib.arg[2] = pathConf.srtPublishPassphrase => lib.out.publisher
            /\ (lib.out.publisher /\ lib.arg[3] = pathConf.srtReadPassphrase) => lib.out.reader

\* only a publish passphrase is configured: the publisher presented it, the
\* reader presented none and received the unit
C28_Witness ==
    /\ lib.fn = "TestSRTServer"
    /\ lib.done
    /\ lib.arg = <<[srtPublishPassphrase |-> "123456789abcde", srtReadPassphrase |-> ""],
                   "123456789abcde", "">>
    /\ lib.out.reader
    /\ lib.out.received = <<"unit">>

\* C29: while the cursor of a Buffer of capacity N stays frozen the writer
\* is never blocked; when the reader wakes after k > N pushes and reads
\* with no further push, it observes one overflow and then the N most
\* recent units in the order they were pushed.
C29_OneOverflowThenLastUnits ==
    /\ buf.w < MaxPushes => ENABLED BufPush
    /\ (buf.woke = buf.w /\ buf.w > buf.n) =>
          LET all == <<"overflow">> \o [i \in 1..buf.n |-> buf.w - buf.n + i - 1]
          IN  /\ Len(buf.seen) \in 1..Len(all)
              /\ \A i \in 1..Len(buf.seen) : buf.seen[i] = all[i]
              /\ buf.c = buf.w => buf.seen = all

\* capacity 4, 10 pushes: the reader saw one overflow and units 6 to 9
C29_Witness ==
    /\ buf.n = 4
    /\ buf.w = 10
    /\ buf.woke = 10
    /\ buf.seen = <<"overflow", 6, 7, 8, 9>>

\* C31: after Close has been called run terminates in the end, whether it
\* was executing the command or pausing; the wait group, 1 since NewCmd, is
\* decremented once, when run returns; with restart disabled run returns
\* in the step in which the command exits.
C31_RunTerminatesAfterClose ==
    /\ [](cmd.wg = IF cmd.pc = "returned" THEN 0 ELSE 1)
    /\ [][cmd.pc = "returned" => cmd'.pc = "returned"]_vars
    /\ [][(~cmd.restart /\ cmd.pc = "running" /\ cmd'.pc # "running")
           => cmd'.pc = "returned"]_vars
    /\ cmd.closed ~> (cmd.pc = "returned")

\* Close came while run was pausing, and run has returned
C31_Witness ==
    /\ cmd.pc = "returned"
    /\ cmd.wg = 0
    /\ Len(cmd.log) >= 2
    /\ cmd.log[Len(cmd.log)] = "close"
    /\ cmd.log[Len(cmd.log) - 1] \in {"onExitErr", "onExitCode0"}

OnExitCalls == {"onExitErr", "onExitCode0"}

\* C32 (as stated): once Close has been called onExit is not invoked any
\* more.
C32_NoOnExitAfterClose ==
    \A i, j \in 1..Len(cmd.log) :
        (cmd.log[i] = "close" /\ i < j) => cmd.log[j] \notin OnExitCalls

\* C32 (amended): onExit is invoked only for an exit of the command itself,
\* which run can still receive after Close; the termination is never
\* reported, and once run has returned onExit is not invoked any more.
C32_OnExitOnlyForOwnExit ==
    /\ [](\A j \in 1..Len(cmd.log) :
             cmd.log[j] \in OnExitCalls
                 => (j > 1 /\ cmd.log[j - 1] \in {"exitErr", "exitNil"}))
    /\ [][cmd.pc = "returned"
             => SelectSeq(cmd'.log, LAMBDA e : e \in OnExitCalls)
                    = SelectSeq(cmd.log, LAMBDA e : e \in OnExitCalls)]_vars

\* Close was called and then the command's own exit was reported
C32_Witness ==
    \E i, j \in 1..Len(cmd.log) :
        /\ cmd.log[i] = "close" /\ i < j
        /\ cmd.log[j] \in OnExitCalls
        /\ cmd.pc = "returned"

C34_BFramesRejected ==
    [][(recLast'.kind = "unit" /\ recFormat.kind \in MpegKinds)
       => LET u == recLast'.unit
              res == recLast'.res
          IN  /\ (recStarted /\ ~u.empty /\ u.pts < recLastPTS)
                     => /\ res = "unitError"
                        /\ recLastPTS' = recLastPTS
                        /\ recSegment' \in {recSegment, "nil"}
              /\ res \in {"recorded", "writeError"}
                     => /\ recLastPTS' = u.pts
                        /\ recStarted => recLastPTS <= u.pts
              /\ ~recStarted => res # "unitError"
              /\ res = "unitError" => u.pts < recLastPTS]_vars

\* an MPEG-1 Video frame was rejected after a later frame had been recorded
C34_Witness ==
    /\ recLast.kind = "unit"
    /\ recFormat.kind = "mpeg1video"
    /\ recLast.res = "unitError"
    /\ recStarted
    /\ recLast.unit.pts < recLastPTS

\* the clients forwardFrame still has to serve
ToServe(f) == ({f.cur} \cup f.rest) \ {NoForward.cur}

C36_UdpFramesOfRegisteredPorts ==
    [][/\ (last'.kind = "clientFrameUdp" /\ last'.res \in StreamTypes)
          => /\ \E a \in DOMAIN udpClientsByAddr :
                    /\ udpClientsByAddr[a].client = last'.client
                    /\ udpClientsByAddr[a].trackId = last'.track
                    /\ udpClientsByAddr[a].streamType = last'.res
                    /\ a = makeUdpClientAddr(last'.client,
                                             IF last'.res = "rtp" THEN rtpPort(last'.track)
                                             ELSE rtcpPort(last'.track))
             /\ clients[last'.client].state = "record"
             /\ clients[last'.client].streamProtocol = "udp"
             /\ last'.track \in clients[last'.client].streamTracks
             /\ last'.path = clients[last'.client].path
       /\ (last'.kind = "clientFrameUdp" /\ last'.res \notin StreamTypes)
          => UNCHANGED <<conf, paths, clients, udpClientsByAddr, publisherCount,
                         readerCount, runPc, fwd>>
       /\ (last'.kind = "record" /\ last'.phase = "loop")
          => LET c == last'.client
             IN  IF clients[c].streamProtocol = "udp"
                 THEN \A t \in clients[c].streamTracks :
                         /\ makeUdpClientAddr(c, rtpPort(t)) \in DOMAIN udpClientsByAddr'
                         /\ makeUdpClientAddr(c, rtcpPort(t)) \in DOMAIN udpClientsByAddr'
                         /\ udpClientsByAddr'[makeUdpClientAddr(c, rtpPort(t))]
                               = [client |-> c, trackId |-> t, streamType |-> "rtp"]
                         /\ udpClientsByAddr'[makeUdpClientAddr(c, rtcpPort(t))]
                               = [client |-> c, trackId |-> t, streamType |-> "rtcp"]
                 ELSE udpClientsByAddr' = udpClientsByAddr]_vars

\* a packet for the RTCP port of a publisher arrived on the RTP socket and
\* was dropped
C36_Witness ==
    /\ last.kind = "clientFrameUdp"
    /\ last.res = "wrongType"
    /\ clients[last.client].state = "record"

\* C37: Write sets the chunk size (the window acknowledge size) of the
\* underlying writer only after a SetChunkSize (SetWindowAckSize) message
\* has been written, so that message goes out with the previous chunk size;
\* when marshalling or the raw write fails the error is returned and no
\* value changes; a message of another type changes none.
C37_SizesSetAfterTheWrite ==
    (lib.fn = "Write" /\ lib.done)
    => LET w == lib.arg[1]
           msg == lib.arg[2]
           out == lib.out
       IN  /\ out.err = "nil" <=> (msg.marshalOk /\ msg.writeOk)
           /\ out.err # "nil" => out.w = w
           /\ out.err = "nil" => out.sentWith = w.chunkSize
           /\ out.w.chunkSize =
                 IF out.err = "nil" /\ msg.type = "SetChunkSize" THEN msg.value
                 ELSE w.chunkSize
           /\ out.w.windowAckSize =
                 IF out.err = "nil" /\ msg.type = "SetWindowAckSize" THEN msg.value
                 ELSE w.windowAckSize

\* a SetChunkSize message with a new value was sent with the previous one
C37_Witness ==
    /\ lib.fn = "Write" /\ lib.done
    /\ lib.arg[2].type = "SetChunkSize"
    /\ lib.out.err = "nil"
    /\ lib.out.sentWith = 128
    /\ lib.out.w.chunkSize = 4096

\* C39: jpegExtractSize returns a width and height or an error on every
\* byte sequence; it never reads outside the input, a marker in the last
\* two bytes and a segment length below 2 included.
C39_SizeOrError ==
    (lib.fn = "jpegExtractSize" /\ lib.done) => lib.out # "panic"

C38_MetricsAlways200 ==
    /\ metrics.answer # "panic"
    /\ ~metrics.raced

====
